---- MODULE Spec2Model ----
(***************************************************************************)
(* Model of the spaceship bridge of steps-xcode-archive (package           *)
(* spaceship): createSpaceshipCommand, runSpaceshipCommand,                *)
(* runSpaceshipCommandOnce and shouldRetrySpaceshipCommand.                *)
(*                                                                         *)
(* Text is modelled by its structure.  The combined output of the process  *)
(* is a sequence of lines, a line is a sequence of tokens, a token is a    *)
(* record [k, v].  A Go string returned by the bridge is a sequence of     *)
(* lines: "" is <<>>, the matched line m is <<m>>, the whole output is the *)
(* output itself.                                                          *)
(***************************************************************************)
EXTENDS Integers, Sequences, FiniteSets, TLC

\* ------------------------------------------------------------------------
\* Bounds of the model
\* ------------------------------------------------------------------------
MaxLines == 2
MaxSessionLen == 2
MaxOpts == 1

\* ------------------------------------------------------------------------
\* Text
\* ------------------------------------------------------------------------
Marker == "503 Service Temporarily Unavailable"

Tok(k, v) == [k |-> k, v |-> v]

LBrace == Tok("{", "{")
RBrace == Tok("}", "}")
Comma == Tok(",", ",")

\* the lines the process may print
LineJunk == << Tok("text", "junk") >>
LineMarker == << Tok("text", Marker) >>
LineOK == << LBrace, Tok("error", ""), Comma, Tok("retry", "false"), RBrace >>
LineRetry == << LBrace, Tok("error", "x"), Comma, Tok("retry", "true"), RBrace >>
LineRetryNoText == << LBrace, Tok("retry", "true"), RBrace >>
LineError == << LBrace, Tok("error", "x"), RBrace >>
LineBadMarker == << LBrace, Tok("text", Marker), RBrace >>

LineSet ==
  { LineJunk, LineMarker, LineOK, LineRetry, LineRetryNoText, LineError,
    LineBadMarker }

SeqsUpTo(S, n) == UNION { [1..k -> S] : k \in 0..n }

Outputs == SeqsUpTo(LineSet, MaxLines)

EmptyString == << >>

\* strings.Contains(out, "503 Service Temporarily Unavailable")
ContainsMarker(out) ==
  \E l \in 1..Len(out) : \E t \in 1..Len(out[l]) : out[l][t].v = Marker

shouldRetrySpaceshipCommand_Any(out) == out # EmptyString

shouldRetrySpaceshipCommand(out) ==
  IF out = EmptyString THEN FALSE ELSE ContainsMarker(out)

\* regexp `(?m)^\{.*\}$` on one line
MatchesJsonRegexp(line) ==
  /\ Len(line) >= 2
  /\ line[1] = LBrace
  /\ line[Len(line)] = RBrace

MatchingLines(output) == { l \in 1..Len(output) : MatchesJsonRegexp(output[l]) }

Min(S) == CHOOSE x \in S : \A y \in S : x <= y
Max(S) == CHOOSE x \in S : \A y \in S : x >= y

FindString_Last(output) ==
  IF MatchingLines(output) = {} THEN EmptyString
  ELSE << output[Max(MatchingLines(output))] >>

\* jsonRegexp.FindString(output): the leftmost match, "" when there is none
FindString(output) ==
  IF MatchingLines(output) = {} THEN EmptyString
  ELSE << output[Min(MatchingLines(output))] >>

\* json.Unmarshal of a matched line into struct{Error string; ShouldRetry bool}
Members(line) == SubSeq(line, 2, Len(line) - 1)

IsMember(t) == t.k \in {"error", "retry", "data"}

WellFormed(body) ==
  \/ body = << >>
  \/ /\ Len(body) % 2 = 1
     /\ \A p \in 1..Len(body) :
          IF p % 2 = 1 THEN IsMember(body[p]) ELSE body[p] = Comma

FieldValue(body, key, zero) ==
  LET at == { p \in 1..Len(body) : body[p].k = key }
  IN IF at = {} THEN zero ELSE body[Max(at)].v

Unmarshal(line) ==
  LET body == Members(line)
  IN IF WellFormed(body)
     THEN [ok |-> TRUE,
           Error |-> FieldValue(body, "error", ""),
           ShouldRetry |-> FieldValue(body, "retry", "false") = "true"]
     ELSE [ok |-> FALSE, Error |-> "", ShouldRetry |-> FALSE]

\* ------------------------------------------------------------------------
\* Errors
\* ------------------------------------------------------------------------
Nil == [kind |-> "nil", status |-> 0, text |-> "", output |-> EmptyString]

ExitStatusError(code, output) ==
  [kind |-> "exited with status", status |-> code, text |-> "", output |-> output]
CommandFailedError(output) ==
  [kind |-> "failed with output", status |-> 0, text |-> "", output |-> output]
NoResponseError(output) ==
  [kind |-> "output does not contain response", status |-> 0, text |-> "",
   output |-> output]
UnmarshalError(match) ==
  [kind |-> "failed to unmarshal response", status |-> 0, text |-> "",
   output |-> match]
NewProfilesInconsistentError(text) ==
  [kind |-> "ProfilesInconsistentError", status |-> 0, text |-> text,
   output |-> EmptyString]
PortalError(text) ==
  [kind |-> "failed to query Developer Portal", status |-> 0, text |-> text,
   output |-> EmptyString]

\* ------------------------------------------------------------------------
\* The process run by cmd.command.RunAndReturnTrimmedCombinedOutput()
\* ------------------------------------------------------------------------
ExitCodes == {1}

\* err = nil; err is an *exec.ExitError; err is another error
Runs ==
  [err : {"nil"}, code : {0}, output : Outputs]
    \cup [err : {"ExitError"}, code : ExitCodes, output : Outputs]
    \cup [err : {"other"}, code : {0}, output : Outputs]

Result(out, err) == [out |-> out, err |-> err]

\* runSpaceshipCommandOnce, with the run of the process as its input
runSpaceshipCommandOnce_NoMatchKeepsOutput(r) ==
  IF r.err = "ExitError" THEN Result(r.output, ExitStatusError(r.code, r.output))
  ELSE IF r.err # "nil" THEN Result(r.output, CommandFailedError(r.output))
  ELSE LET match == FindString(r.output) IN
    IF match = EmptyString THEN Result(r.output, NoResponseError(r.output))
    ELSE LET response == Unmarshal(match[1]) IN
      IF ~response.ok THEN Result(EmptyString, UnmarshalError(match))
      ELSE IF response.ShouldRetry
        THEN Result(EmptyString, NewProfilesInconsistentError(response.Error))
      ELSE IF response.Error # ""
        THEN Result(EmptyString, PortalError(response.Error))
      ELSE Result(match, Nil)

runSpaceshipCommandOnce_FailureKeepsOutput(r) ==
  IF r.err = "ExitError" THEN Result(r.output, ExitStatusError(r.code, r.output))
  ELSE IF r.err # "nil" THEN Result(r.output, CommandFailedError(r.output))
  ELSE LET match == FindString(r.output) IN
    IF match = EmptyString THEN Result(EmptyString, NoResponseError(r.output))
    ELSE LET response == Unmarshal(match[1]) IN
      IF ~response.ok THEN Result(r.output, UnmarshalError(match))
      ELSE IF response.ShouldRetry
        THEN Result(r.output, NewProfilesInconsistentError(response.Error))
      ELSE IF response.Error # ""
        THEN Result(r.output, PortalError(response.Error))
      ELSE Result(match, Nil)

runSpaceshipCommandOnce_ErrorFirst(r) ==
  IF r.err = "ExitError" THEN Result(r.output, ExitStatusError(r.code, r.output))
  ELSE IF r.err # "nil" THEN Result(r.output, CommandFailedError(r.output))
  ELSE LET match == FindString(r.output) IN
    IF match = EmptyString THEN Result(EmptyString, NoResponseError(r.output))
    ELSE LET response == Unmarshal(match[1]) IN
      IF ~response.ok THEN Result(EmptyString, UnmarshalError(match))
      ELSE IF response.Error # ""
        THEN Result(EmptyString, PortalError(response.Error))
      ELSE IF response.ShouldRetry
        THEN Result(EmptyString, NewProfilesInconsistentError(response.Error))
      ELSE Result(match, Nil)

runSpaceshipCommandOnce(r) ==
  IF r.err = "ExitError" THEN Result(r.output, ExitStatusError(r.code, r.output))
  ELSE IF r.err # "nil" THEN Result(r.output, CommandFailedError(r.output))
  ELSE LET match == FindString(r.output) IN
    IF match = EmptyString THEN Result(EmptyString, NoResponseError(r.output))
    ELSE LET response == Unmarshal(match[1]) IN
      IF ~response.ok THEN Result(EmptyString, UnmarshalError(match))
      ELSE IF response.ShouldRetry
        THEN Result(EmptyString, NewProfilesInconsistentError(response.Error))
      ELSE IF response.Error # ""
        THEN Result(EmptyString, PortalError(response.Error))
      ELSE Result(match, Nil)

\* ------------------------------------------------------------------------
\* createSpaceshipCommand
\* ------------------------------------------------------------------------
Base64Alphabet ==
  << "A", "B", "C", "D", "E", "F", "G", "H", "I", "J", "K", "L", "M",
     "N", "O", "P", "Q", "R", "S", "T", "U", "V", "W", "X", "Y", "Z",
     "a", "b", "c", "d", "e", "f", "g", "h", "i", "j", "k", "l", "m",
     "n", "o", "p", "q", "r", "s", "t", "u", "v", "w", "x", "y", "z",
     "0", "1", "2", "3", "4", "5", "6", "7", "8", "9", "+", "/" >>

Sextet(n) == Base64Alphabet[n + 1]

\* base64.StdEncoding.EncodeToString on a sequence of bytes
RECURSIVE StdEncoding(_)
StdEncoding(b) ==
  IF Len(b) = 0 THEN ""
  ELSE IF Len(b) = 1 THEN
    Sextet(b[1] \div 4) \o Sextet((b[1] % 4) * 16) \o "=="
  ELSE IF Len(b) = 2 THEN
    Sextet(b[1] \div 4) \o Sextet((b[1] % 4) * 16 + b[2] \div 16)
      \o Sextet((b[2] % 16) * 4) \o "="
  ELSE
    Sextet(b[1] \div 4) \o Sextet((b[1] % 4) * 16 + b[2] \div 16)
      \o Sextet((b[2] % 16) * 4 + b[3] \div 64) \o Sextet(b[3] % 64)
      \o StdEncoding(SubSeq(b, 4, Len(b)))

\* strings.Join(s, " ")
RECURSIVE Join(_)
Join(s) ==
  IF Len(s) = 0 THEN ""
  ELSE IF Len(s) = 1 THEN s[1]
  ELSE s[1] \o " " \o Join(Tail(s))

AuthParams(c) ==
  << "--username", c.Username,
     "--password", c.Password,
     "--session", StdEncoding(c.Session),
     "--team-id", c.teamID >>

SpaceshipCommand(c, s, printable) ==
  [command |-> [name |-> "ruby", args |-> s, dir |-> c.workDir],
   printableCommandArgs |-> printable]

createSpaceshipCommand_PrintsAll(c, sub, o) ==
  LET s == << "main.rb", "--subcommand", sub >> \o o
  IN SpaceshipCommand(c, s \o AuthParams(c), Join(s \o AuthParams(c)))

createSpaceshipCommand(c, sub, o) ==
  LET s == << "main.rb", "--subcommand", sub >> \o o
  IN SpaceshipCommand(c, s \o AuthParams(c), Join(s))

\* ------------------------------------------------------------------------
\* Inputs
\* ------------------------------------------------------------------------
Bytes == {77, 255}
Sessions == SeqsUpTo(Bytes, MaxSessionLen)

Clients ==
  [workDir : {"/tmp/spaceship"},
   Username : {"u1", "u2"},
   Password : {"p1", "p2"},
   Session : Sessions,
   teamID : {"T1", "T2"}]

BridgeClients ==
  { [workDir |-> "/tmp/spaceship", Username |-> "u1", Password |-> "p1",
     Session |-> << 77 >>, teamID |-> "T1"] }

SubCommands == {"list_dev_certs", "list_profiles"}
OptSet == {"--name", "--id"}
OptLists == SeqsUpTo(OptSet, MaxOpts)

NoCommand == SpaceshipCommand([workDir |-> ""], << >>, "")
NoRun == [err |-> "none", code |-> 0, output |-> EmptyString]

\* ------------------------------------------------------------------------
\* State
\* ------------------------------------------------------------------------
VARIABLES
  c,             \* the Client of the call
  c2,            \* a second Client, for the comparison of two commands
  subCommand,    \* argument of the call
  opts,          \* argument of the call
  pc,            \* position of runSpaceshipCommand
  i,             \* loop variable of runSpaceshipCommand
  cmd,           \* the command created for the current attempt
  cmd2,          \* the command created for c2
  running,       \* number of spaceship processes in flight
  run,           \* the run of the process of the latest attempt
  spaceshipOut,  \* local of runSpaceshipCommand
  spaceshipErr,  \* local of runSpaceshipCommand
  ret,           \* what runSpaceshipCommand returned
  attempts,      \* history: the attempts of the call, in order
  sleeps         \* history: the calls of time.Sleep, in order

\* runArchiveCommandWithRetry
VARIABLES
  swiftPackagesPath,  \* argument of the call
  useXcpretty,        \* argument of the call
  aPc,                \* position of runArchiveCommandWithRetry
  aAttempt,           \* which call of runArchiveCommand is next or running
  aOutput,            \* local output
  aErr,               \* local err
  aRet,               \* what runArchiveCommandWithRetry returned
  aLast,              \* the run of the latest archive command
  aRuns,              \* history: the archive commands run, in order
  aEvents,            \* history: starts and ends of commands and removals
  cacheDir            \* the directory at swiftPackagesPath

archiveVars ==
  << swiftPackagesPath, useXcpretty, aPc, aAttempt, aOutput, aErr, aRet,
     aLast, aRuns, aEvents, cacheDir >>

\* wrapXcodebuildCommandError and findXcodebuildErrors
VARIABLES
  dOut,        \* argument out
  dCmdErr,     \* argument err: "nil", "ExitError" or "other"
  dPc,         \* position in wrapXcodebuildCommandError / findXcodebuildErrors
  errorLines,  \* local of findXcodebuildErrors
  nserrors,    \* local of findXcodebuildErrors
  dScanErr,    \* scanner.Err() of the latest scan
  dReasons,    \* history: what findXcodebuildErrors returned, call by call
  dWrapped     \* history: what wrapXcodebuildCommandError returned

diagVars ==
  << dOut, dCmdErr, dPc, errorLines, nserrors, dScanErr, dReasons, dWrapped >>

\* the export part of xcodeIPAExport and findIDEDistrubutionLogsPath
VARIABLES
  outputTool,     \* opts.OutputTool
  ePc,            \* position in xcodeIPAExport
  xcodebuildLog,  \* local xcodebuildLog of the branch taken
  eOut,           \* the named result out
  eFind,          \* what findIDEDistrubutionLogsPath returned
  eRet,           \* the error xcodeIPAExport returned
  eRuns,          \* history: the export commands run, in order
  eLast           \* the run of the latest export command

exportVars ==
  << outputTool, ePc, xcodebuildLog, eOut, eFind, eRet, eRuns, eLast >>

\* ProcessInputs
VARIABLES
  inputs,             \* the step inputs as the parser delivers them
  config,             \* local config of ProcessInputs, then of RunStep
  xcodeMajorVersion,  \* local xcodeMajorVersion
  piPc,               \* position in ProcessInputs
  piErr               \* the error ProcessInputs returned

inputVars == << inputs, config, xcodeMajorVersion, piPc, piErr >>

\* RunStep, Run, and xcodeArchive around runArchiveCommandWithRetry
VARIABLES
  sPc,          \* position in RunStep / Run / xcodeArchive / xcodeIPAExport
  depsErr,      \* the error EnsureDependencies returned
  mainTarget,   \* product type of the scheme's main target
  archiveOut,   \* the named result out of xcodeArchive
  archiveErr,   \* the error xcodeArchive returned
  runOut,       \* what Run returned
  runErr,       \* the error Run returned
  exportCalls,  \* history: the ExportOpts of every call of ExportOutput
  exportErr,    \* the error ExportOutput returned
  stepRet       \* how RunStep ended

stepVars ==
  << sPc, depsErr, mainTarget, archiveOut, archiveErr, runOut, runErr, exportCalls,
     exportErr, stepRet >>

otherVars == << archiveVars, diagVars, exportVars, inputVars, stepVars >>

vars ==
  << c, c2, subCommand, opts, pc, i, cmd, cmd2, running, run,
     spaceshipOut, spaceshipErr, ret, attempts, sleeps, otherVars >>

bridgeVars ==
  << pc, i, running, run, spaceshipOut, spaceshipErr, ret, attempts, sleeps >>

NoError == [kind |-> "nil", code |-> 0, text |-> ""]
NoXcodeRun == [err |-> "none", code |-> 0, output |-> EmptyString]

ArchiveIdle ==
  /\ swiftPackagesPath = ""
  /\ useXcpretty = FALSE
  /\ aPc = "idle"
  /\ aAttempt = 0
  /\ aOutput = EmptyString
  /\ aErr = NoError
  /\ aRet = Result(EmptyString, NoError)
  /\ aLast = NoXcodeRun
  /\ aRuns = << >>
  /\ aEvents = << >>
  /\ cacheDir = "absent"

DiagIdle ==
  /\ dOut = EmptyString
  /\ dCmdErr = "nil"
  /\ dPc = "idle"
  /\ errorLines = << >>
  /\ nserrors = << >>
  /\ dScanErr = "nil"
  /\ dReasons = << >>
  /\ dWrapped = << >>

\* the zero value of xcodeIPAExportOutput
EmptyExportOutput ==
  [XcodebuildLog |-> EmptyString, IDEDistrubutionLogsDir |-> "",
   ExportOptionsPath |-> "", IPAExportDir |-> ""]

NoFind == [path |-> "", err |-> "none"]

ExportIdle ==
  /\ outputTool = "xcodebuild"
  /\ ePc = "idle"
  /\ xcodebuildLog = EmptyString
  /\ eOut = EmptyExportOutput
  /\ eFind = NoFind
  /\ eRet = [kind |-> "none", cause |-> "nil"]
  /\ eRuns = << >>
  /\ eLast = NoXcodeRun

\* a path: its directory, the name of its last element and the extension
\* of that element (filepath.Ext)
Path(dir, base, ext) == [dir |-> dir, base |-> base, ext |-> ext]
NoPath == Path("", "", "")

\* the zero values of Inputs (the fields the model follows) and of Config
EmptyInputs ==
  [OutputTool |-> "", Workdir |-> "", ProjectPath |-> NoPath,
   CustomExportOptionsPlistContent |-> "", ForceTeamID |-> "",
   ForceProvisioningProfileSpecifier |-> "", ForceProvisioningProfile |-> "",
   OutputDir |-> ""]

EmptyConfig == [Inputs |-> EmptyInputs, XcodeMajorVersion |-> 0]

InputsIdle ==
  /\ inputs = EmptyInputs
  /\ config = EmptyConfig
  /\ xcodeMajorVersion = 0
  /\ piPc = "idle"
  /\ piErr = "none"

\* the zero values of xcodeArchiveOutput and RunOut
EmptyArchiveOutput ==
  [ArchivePath |-> "", AppPath |-> "", AppDSYMPaths |-> << >>,
   FrameworkDSYMPaths |-> << >>, XcodebuildLog |-> EmptyString]

EmptyRunOut ==
  [ArchivePath |-> "", AppPath |-> "", AppDSYMPaths |-> << >>,
   FrameworkDSYMPaths |-> << >>, ExportOptionsPath |-> "",
   IPAExportDir |-> "", XcodebuildLog |-> EmptyString,
   IDEDistrubutionLogsDir |-> ""]

StepIdle ==
  /\ sPc = "idle"
  /\ depsErr = "none"
  /\ mainTarget = ""
  /\ archiveOut = EmptyArchiveOutput
  /\ archiveErr = "none"
  /\ runOut = EmptyRunOut
  /\ runErr = "none"
  /\ exportCalls = << >>
  /\ exportErr = "none"
  /\ stepRet = [kind |-> "none", err |-> "nil"]

OthersIdle ==
  ArchiveIdle /\ DiagIdle /\ ExportIdle /\ InputsIdle /\ StepIdle

BridgeIdle ==
  /\ pc = "idle"
  /\ i = 0
  /\ cmd = NoCommand
  /\ cmd2 = NoCommand
  /\ running = 0
  /\ run = NoRun
  /\ spaceshipOut = EmptyString
  /\ spaceshipErr = Nil
  /\ ret = Result(EmptyString, Nil)
  /\ attempts = << >>
  /\ sleeps = << >>

Init ==
  /\ c \in BridgeClients
  /\ c2 = c
  /\ subCommand = "list_dev_certs"
  /\ opts = << >>
  /\ BridgeIdle
  /\ OthersIdle

\* for i := 1; i <= 3; i++
LoopCond_Four(n) == n <= 4

LoopCond(n) == n <= 3

\* waitTimeSec := i * 15
WaitTimeSec_Fixed(n) == 15

WaitTimeSec(n) == n * 15

\* entry of runSpaceshipCommand
Call ==
  /\ pc = "idle"
  /\ pc' = "loop"
  /\ i' = 1
  /\ UNCHANGED << c, c2, subCommand, opts, cmd, cmd2, running, run,
                  spaceshipOut, spaceshipErr, ret, attempts, sleeps >>
  /\ UNCHANGED otherVars

\* loop test true: createSpaceshipCommand, then the process is started
StartAttempt ==
  /\ pc = "loop"
  /\ LoopCond(i)
  /\ cmd' = createSpaceshipCommand(c, subCommand, opts)
  /\ running' = running + 1
  /\ pc' = "running"
  /\ UNCHANGED << c, c2, subCommand, opts, i, cmd2, run,
                  spaceshipOut, spaceshipErr, ret, attempts, sleeps >>
  /\ UNCHANGED otherVars

\* the branch of runSpaceshipCommand on the result of an attempt
Decide_RetryInconsistent(out, err) ==
  IF err = Nil THEN "return out"
  ELSE IF shouldRetrySpaceshipCommand(out)
          \/ err.kind = "ProfilesInconsistentError" THEN "sleep"
  ELSE "return err"

Decide(out, err) ==
  IF err = Nil THEN "return out"
  ELSE IF shouldRetrySpaceshipCommand(out) THEN "sleep"
  ELSE "return err"

\* the process ends with run r: the rest of runSpaceshipCommandOnce and the
\* branch of runSpaceshipCommand on its result
FinishAttempt(r) ==
  /\ pc = "running"
  /\ LET res == runSpaceshipCommandOnce(r)
         d == Decide(res.out, res.err) IN
       /\ running' = running - 1
       /\ run' = r
       /\ spaceshipOut' = res.out
       /\ spaceshipErr' = res.err
       /\ attempts' = Append(attempts,
            [n |-> i, proc |-> r.err, err |-> res.err.kind,
             failed |-> res.err # Nil,
             marker |-> ContainsMarker(res.out),
             rawMarker |-> ContainsMarker(r.output)])
       /\ pc' = IF d = "sleep" THEN "sleep" ELSE "done"
       /\ ret' = IF d = "return out" THEN Result(res.out, Nil)
                 ELSE IF d = "return err" THEN Result(EmptyString, res.err)
                 ELSE ret
  /\ UNCHANGED << c, c2, subCommand, opts, i, cmd, cmd2, sleeps >>
  /\ UNCHANGED otherVars

\* time.Sleep(waitTimeSec seconds), then i++
Sleep ==
  /\ pc = "sleep"
  /\ sleeps' = Append(sleeps, [after |-> i, secs |-> WaitTimeSec(i)])
  /\ i' = i + 1
  /\ pc' = "loop"
  /\ UNCHANGED << c, c2, subCommand, opts, cmd, cmd2, running, run,
                  spaceshipOut, spaceshipErr, ret, attempts >>
  /\ UNCHANGED otherVars

\* loop test false: return spaceshipOut, spaceshipErr
LoopExit ==
  /\ pc = "loop"
  /\ ~LoopCond(i)
  /\ ret' = Result(spaceshipOut, spaceshipErr)
  /\ pc' = "done"
  /\ UNCHANGED << c, c2, subCommand, opts, i, cmd, cmd2, running, run,
                  spaceshipOut, spaceshipErr, attempts, sleeps >>
  /\ UNCHANGED otherVars

Next ==
  \/ Call
  \/ StartAttempt
  \/ \E r \in Runs : FinishAttempt(r)
  \/ Sleep
  \/ LoopExit

Spec == Init /\ [][Next]_vars

\* ------------------------------------------------------------------------
\* createSpaceshipCommand on its own, for two clients that differ in their
\* secrets only
\* ------------------------------------------------------------------------
InitCmd ==
  /\ c \in Clients
  /\ c2 \in Clients
  /\ subCommand \in SubCommands
  /\ opts \in OptLists
  /\ BridgeIdle
  /\ OthersIdle

CreateCommands ==
  /\ cmd = NoCommand
  /\ cmd' = createSpaceshipCommand(c, subCommand, opts)
  /\ cmd2' = createSpaceshipCommand(c2, subCommand, opts)
  /\ UNCHANGED << c, c2, subCommand, opts >>
  /\ UNCHANGED bridgeVars
  /\ UNCHANGED otherVars

NextCmd == CreateCommands

SpecCmd == InitCmd /\ [][NextCmd]_vars

\* ------------------------------------------------------------------------
\* Output of xcodebuild (archive and export commands)
\* ------------------------------------------------------------------------
\* cache.SwiftPackagesStateInvalid
SwiftPackagesStateInvalid == "Could not resolve package dependencies:"

\* the literal part of the pattern of findIDEDistrubutionLogsPath
IDEDistributionLogMarker ==
  "IDEDistribution: -[IDEDistributionLogging _createLoggingBundleAtPath:]: Created bundle at path "

Quote == Tok("'", "'")

XLineJunk == << Tok("text", "** ARCHIVE FAILED **") >>
XLineCacheInvalid == << Tok("text", SwiftPackagesStateInvalid) >>
XLineLogX == << Tok("text", IDEDistributionLogMarker), Quote, Tok("text", "/var/x"), Quote >>
XLineLogY ==
  << Tok("text", IDEDistributionLogMarker), Quote, Tok("text", "/var/y"), Quote,
     Tok("text", "."), Quote >>
XLineLogOpen == << Tok("text", IDEDistributionLogMarker), Quote, Tok("text", "/var/z") >>
\* a line longer than bufio.MaxScanTokenSize
XLineTooLong == << Tok("long", "...") >>

XcodeLineSet ==
  { XLineJunk, XLineCacheInvalid, XLineLogX, XLineLogY, XLineLogOpen,
    XLineTooLong }

XcodeOutputs == SeqsUpTo(XcodeLineSet, MaxLines)

\* err = nil; err is an *exec.ExitError; err is another error
XcodeRuns ==
  [err : {"nil"}, code : {0}, output : XcodeOutputs]
    \cup [err : {"ExitError"}, code : {65}, output : XcodeOutputs]
    \cup [err : {"other"}, code : {0}, output : XcodeOutputs]

CommandError(r) == [kind |-> r.err, code |-> r.code, text |-> ""]

\* strings.Contains(output, cache.SwiftPackagesStateInvalid)
ContainsCacheInvalid(output) ==
  \E l \in 1..Len(output) :
    \E t \in 1..Len(output[l]) : output[l][t].v = SwiftPackagesStateInvalid

\* ------------------------------------------------------------------------
\* runArchiveCommandWithRetry
\* ------------------------------------------------------------------------
CachePaths == {"", "/SourcePackages"}

RemoveError ==
  [kind |-> "failed to remove invalid Swift package caches", code |-> 0,
   text |-> "RemoveAll"]

\* err != nil && swiftPackagesPath != "" && strings.Contains(output, ...)
IsCacheInvalid_ExitOnly(err, path, output) ==
  err.kind = "ExitError" /\ path # "" /\ ContainsCacheInvalid(output)

IsCacheInvalid_NoPathCheck(err, path, output) ==
  err # NoError /\ ContainsCacheInvalid(output)

IsCacheInvalid(err, path, output) ==
  err # NoError /\ path # "" /\ ContainsCacheInvalid(output)

\* what follows the n-th run of the archive command
AfterArchive_Recheck(n, err, path, output) ==
  IF IsCacheInvalid(err, path, output) THEN "remove" ELSE "return"

AfterArchive_SkipsRemove(n, err, path, output) ==
  IF n = 1 /\ IsCacheInvalid(err, path, output) THEN "retry" ELSE "return"

AfterArchive(n, err, path, output) ==
  IF n = 1 /\ IsCacheInvalid(err, path, output) THEN "remove" ELSE "return"

\* what follows os.RemoveAll(swiftPackagesPath)
AfterRemove_IgnoresFailure(ok) == "retry"

AfterRemove(ok) == IF ok THEN "retry" ELSE "return"

InitArchive ==
  /\ c \in BridgeClients
  /\ c2 = c
  /\ subCommand = "list_dev_certs"
  /\ opts = << >>
  /\ BridgeIdle
  /\ swiftPackagesPath \in CachePaths
  /\ useXcpretty \in BOOLEAN
  /\ aPc = "start"
  /\ aAttempt = 1
  /\ aOutput = EmptyString
  /\ aErr = NoError
  /\ aRet = Result(EmptyString, NoError)
  /\ aLast = NoXcodeRun
  /\ aRuns = << >>
  /\ aEvents = << >>
  /\ cacheDir = IF swiftPackagesPath = "" THEN "absent" ELSE "present"
  /\ DiagIdle
  /\ ExportIdle
  /\ InputsIdle
  /\ StepIdle

bridgeAll ==
  << c, c2, subCommand, opts, pc, i, cmd, cmd2, running, run,
     spaceshipOut, spaceshipErr, ret, attempts, sleeps >>

notArchive ==
  << bridgeAll, diagVars, exportVars, inputVars, stepVars >>

\* runArchiveCommand: the command (xcodebuild, or xcodebuild piped through
\* xcpretty) is started
RunArchiveCommandStart ==
  /\ aPc = "start"
  /\ aPc' = "running"
  /\ aEvents' = Append(aEvents, "archive start")
  /\ UNCHANGED << swiftPackagesPath, useXcpretty, aAttempt, aOutput, aErr,
                  aRet, aLast, aRuns, cacheDir >>
  /\ UNCHANGED notArchive

\* runArchiveCommand returns the run r; runArchiveCommandWithRetry branches
\* on it
RunArchiveCommandEnd(r) ==
  /\ aPc = "running"
  /\ LET err == CommandError(r)
         next == AfterArchive(aAttempt, err, swiftPackagesPath, r.output) IN
       /\ aLast' = r
       /\ aRuns' = Append(aRuns,
            [n |-> aAttempt,
             tool |-> IF useXcpretty THEN "xcpretty" ELSE "xcodebuild",
             err |-> r.err,
             marker |-> ContainsCacheInvalid(r.output)])
       /\ aEvents' = Append(aEvents, "archive end")
       /\ aPc' = IF next = "return" THEN "done"
                 ELSE IF next = "remove" THEN "remove" ELSE "start"
       /\ aAttempt' = IF next = "retry" THEN aAttempt + 1 ELSE aAttempt
       /\ aOutput' = IF next = "return" THEN EmptyString
                     ELSE IF aAttempt = 1 THEN r.output ELSE aOutput
       /\ aErr' = IF next = "return" THEN NoError
                  ELSE IF aAttempt = 1 THEN err ELSE aErr
       /\ aRet' = IF next = "return" THEN Result(r.output, err) ELSE aRet
  /\ UNCHANGED << swiftPackagesPath, useXcpretty, cacheDir >>
  /\ UNCHANGED notArchive

\* os.RemoveAll(swiftPackagesPath) is called
RemoveAllStart ==
  /\ aPc = "remove"
  /\ aPc' = "removing"
  /\ aEvents' = Append(aEvents, "remove start")
  /\ UNCHANGED << swiftPackagesPath, useXcpretty, aAttempt, aOutput, aErr,
                  aRet, aLast, aRuns, cacheDir >>
  /\ UNCHANGED notArchive

\* os.RemoveAll returns: nil (ok) or an error
RemoveAllEnd(ok) ==
  /\ aPc = "removing"
  /\ LET next == AfterRemove(ok) IN
       /\ cacheDir' = IF ok THEN "absent" ELSE cacheDir
       /\ aEvents' = Append(aEvents,
            IF ok THEN "remove end" ELSE "remove failed")
       /\ aPc' = IF next = "retry" THEN "start" ELSE "done"
       /\ aAttempt' = IF next = "retry" THEN aAttempt + 1 ELSE aAttempt
       /\ aRet' = IF next = "retry" THEN aRet
                  ELSE Result(aOutput, RemoveError)
       /\ aOutput' = IF next = "retry" THEN aOutput ELSE EmptyString
       /\ aErr' = IF next = "retry" THEN aErr ELSE NoError
  /\ UNCHANGED << swiftPackagesPath, useXcpretty, aLast, aRuns >>
  /\ UNCHANGED notArchive

NextArchive ==
  \/ RunArchiveCommandStart
  \/ \E r \in XcodeRuns : RunArchiveCommandEnd(r)
  \/ RemoveAllStart
  \/ \E ok \in BOOLEAN : RemoveAllEnd(ok)

SpecArchive == InitArchive /\ [][NextArchive]_vars

\* ------------------------------------------------------------------------
\* findXcodebuildErrors, NewNSError and wrapXcodebuildCommandError
\* ------------------------------------------------------------------------
MaxTextLines == 4
DiagCalls == 2

DescriptionKey == "NSLocalizedDescription="
SuggestionKey == "NSLocalizedRecoverySuggestion="

NSHead ==
  << Tok("prefix", "Error "), Tok("text", "Domain="), Tok("text", "Code="),
     Tok("text", "UserInfo="), LBrace >>

DLinePlainA == << Tok("prefix", "error: "), Tok("text", "a") >>
DLinePlainB == << Tok("prefix", "error: "), Tok("text", "b") >>
DLineNSFull ==
  NSHead \o << Tok(DescriptionKey, "d1"), Comma, Tok(SuggestionKey, "s1"),
               RBrace >>
DLineNSDesc == NSHead \o << Tok(DescriptionKey, "d2"), RBrace >>
DLineNSNoCode ==
  << Tok("prefix", "Error "), Tok("text", "Domain="), Tok("text", "UserInfo="),
     LBrace, Tok(DescriptionKey, "d3"), RBrace >>
DLineNSNoDomain ==
  << Tok("prefix", "Error "), Tok("text", "Code="), Tok("text", "UserInfo="),
     LBrace, Tok(DescriptionKey, "d5"), RBrace >>
DLineNSNoUserInfo ==
  << Tok("prefix", "Error "), Tok("text", "Domain="), Tok("text", "Code="),
     LBrace, Tok(DescriptionKey, "d6"), RBrace >>
DLineNSNoDesc == NSHead \o << Tok(SuggestionKey, "s4"), RBrace >>
DLineOther == << Tok("text", "note: x") >>

DiagLineSet ==
  { DLinePlainA, DLinePlainB, DLineNSFull, DLineNSDesc, DLineNSNoCode,
    DLineNSNoDomain, DLineNSNoUserInfo, DLineNSNoDesc, DLineOther,
    XLineTooLong }

DiagTexts == SeqsUpTo(DiagLineSet, MaxTextLines)

\* the text of a token and of a run of tokens
TokText(t) == IF t.k \in {DescriptionKey, SuggestionKey} THEN t.k \o t.v ELSE t.v

RECURSIVE TokensText(_)
TokensText(ts) ==
  IF ts = << >> THEN "" ELSE TokText(Head(ts)) \o TokensText(Tail(ts))

\* strings.HasPrefix(line, p), strings.Contains(str, m)
HasPrefix(line, p) == Len(line) >= 1 /\ line[1].v = p
Contains(line, m) == \E t \in DOMAIN line : line[t].v = m

\* isNSError
isNSError_AnyTwoMarkers(str) ==
  /\ Contains(str, "Error ")
  /\ \E m \in {"Domain=", "Code=", "UserInfo="} :
       \A n \in {"Domain=", "Code=", "UserInfo="} \ {m} : Contains(str, n)

isNSError(str) ==
  /\ Contains(str, "Error ")
  /\ Contains(str, "Domain=")
  /\ Contains(str, "Code=")
  /\ Contains(str, "UserInfo=")

\* findFirstSubMatch(str, `key(.+?),|key(.+?)}`): the leftmost occurrence of
\* key; the text up to the next comma when there is one, else up to the
\* next closing brace, else no match
findFirstSubMatch(str, key) ==
  LET at == { p \in DOMAIN str : str[p].k = key } IN
    IF at = {} THEN ""
    ELSE LET p0 == Min(at)
             commas == { q \in DOMAIN str : q > p0 /\ str[q] = Comma }
             braces == { q \in DOMAIN str : q > p0 /\ str[q] = RBrace }
         IN IF commas # {}
              THEN str[p0].v \o TokensText(SubSeq(str, p0 + 1, Min(commas) - 1))
            ELSE IF braces # {}
              THEN str[p0].v \o TokensText(SubSeq(str, p0 + 1, Min(braces) - 1))
            ELSE ""

NoNSError == [Description |-> "", Suggestion |-> "", isNil |-> TRUE]

\* NewNSError
NewNSError(str) ==
  IF ~isNSError(str) THEN NoNSError
  ELSE IF findFirstSubMatch(str, DescriptionKey) = "" THEN NoNSError
  ELSE [Description |-> findFirstSubMatch(str, DescriptionKey),
        Suggestion |-> findFirstSubMatch(str, SuggestionKey),
        isNil |-> FALSE]

\* NSError.Error
NSErrorString_NoSuggestion(e) == e.Description

NSErrorString(e) ==
  IF e.Suggestion # "" THEN e.Description \o " " \o e.Suggestion
  ELSE e.Description

\* the scanner loop of findXcodebuildErrors from line k on, with
\* acc = [errorLines, nserrors, err]; the scanner stops with ErrTooLong at a
\* line longer than its buffer
ErrTooLong == "bufio.Scanner: token too long"

RECURSIVE ScanFrom(_, _, _)
ScanFrom(out, k, acc) ==
  IF k > Len(out) THEN acc
  ELSE LET line == out[k] IN
    IF line = XLineTooLong THEN [acc EXCEPT !.err = ErrTooLong]
    ELSE IF HasPrefix(line, "error: ")
      THEN ScanFrom(out, k + 1,
             [acc EXCEPT !.errorLines = Append(@, TokensText(line))])
    ELSE IF HasPrefix(line, "Error ") /\ ~NewNSError(line).isNil
      THEN ScanFrom(out, k + 1,
             [acc EXCEPT !.nserrors = Append(@, NewNSError(line))])
    ELSE ScanFrom(out, k + 1, acc)

\* var errorLines []string; var nserrors []NSError
NewLocal_Stale(old) == old

NewLocal(old) == << >>

\* len(nserrors) == len(errorLines)
PreferNSErrors_AtLeast(ns, el) == Len(ns) >= Len(el)

PreferNSErrors_OrNoPlain(ns, el) == Len(ns) = Len(el) \/ Len(el) = 0

PreferNSErrors(ns, el) == Len(ns) = Len(el)

\* the rest of findXcodebuildErrors, after the loop
AfterScan_IgnoresScanErr(el, ns, err) ==
  IF PreferNSErrors(ns, el)
    THEN [k \in 1..Len(ns) |-> NSErrorString(ns[k])]
  ELSE el

AfterScan(el, ns, err) ==
  IF err # "nil" THEN << >>
  ELSE IF PreferNSErrors(ns, el)
    THEN [k \in 1..Len(ns) |-> NSErrorString(ns[k])]
  ELSE el

\* the errors wrapXcodebuildCommandError returns
WrapNil == [kind |-> "nil", code |-> 0, reasons |-> << >>, cause |-> "nil"]
WrapExit(code, reasons) ==
  [kind |-> "command failed with exit status", code |-> code,
   reasons |-> reasons, cause |-> "nil"]
WrapOther(err) ==
  [kind |-> "executing command failed", code |-> 0, reasons |-> << >>,
   cause |-> err]

InitDiag ==
  /\ c \in BridgeClients
  /\ c2 = c
  /\ subCommand = "list_dev_certs"
  /\ opts = << >>
  /\ BridgeIdle
  /\ ArchiveIdle
  /\ dOut \in DiagTexts
  /\ dCmdErr \in {"nil", "ExitError", "other"}
  /\ dPc = "wrap"
  /\ errorLines = << >>
  /\ nserrors = << >>
  /\ dScanErr = "nil"
  /\ dReasons = << >>
  /\ dWrapped = << >>
  /\ ExportIdle
  /\ InputsIdle
  /\ StepIdle

notDiag ==
  << bridgeAll, archiveVars, exportVars, inputVars, stepVars >>

NextCall(n) == IF n < DiagCalls THEN "wrap" ELSE "done"

\* wrapXcodebuildCommandError up to the call of findXcodebuildErrors
WrapCall ==
  /\ dPc = "wrap"
  /\ IF dCmdErr = "ExitError"
       THEN /\ dPc' = "find"
            /\ dWrapped' = dWrapped
       ELSE /\ dWrapped' = Append(dWrapped,
                 IF dCmdErr = "nil" THEN WrapNil ELSE WrapOther(dCmdErr))
            /\ dPc' = NextCall(Len(dWrapped'))
  /\ UNCHANGED << dOut, dCmdErr, errorLines, nserrors, dScanErr, dReasons >>
  /\ UNCHANGED notDiag

\* entry of findXcodebuildErrors: the locals and the scanner
FindCall ==
  /\ dPc = "find"
  /\ errorLines' = NewLocal(errorLines)
  /\ nserrors' = NewLocal(nserrors)
  /\ dScanErr' = "nil"
  /\ dPc' = "scan"
  /\ UNCHANGED << dOut, dCmdErr, dReasons, dWrapped >>
  /\ UNCHANGED notDiag

\* for scanner.Scan() { ... }
ScanLines ==
  /\ dPc = "scan"
  /\ LET acc == ScanFrom(dOut, 1,
                  [errorLines |-> errorLines, nserrors |-> nserrors,
                   err |-> "nil"]) IN
       /\ errorLines' = acc.errorLines
       /\ nserrors' = acc.nserrors
       /\ dScanErr' = acc.err
  /\ dPc' = "scanned"
  /\ UNCHANGED << dOut, dCmdErr, dReasons, dWrapped >>
  /\ UNCHANGED notDiag

\* findXcodebuildErrors returns; wrapXcodebuildCommandError builds its error
FindReturn ==
  /\ dPc = "scanned"
  /\ LET reasons == AfterScan(errorLines, nserrors, dScanErr) IN
       /\ dReasons' = Append(dReasons, reasons)
       /\ dWrapped' = Append(dWrapped, WrapExit(65, reasons))
  /\ dPc' = NextCall(Len(dWrapped'))
  /\ UNCHANGED << dOut, dCmdErr, errorLines, nserrors, dScanErr >>
  /\ UNCHANGED notDiag

NextDiag ==
  \/ WrapCall
  \/ FindCall
  \/ ScanLines
  \/ FindReturn

SpecDiag == InitDiag /\ [][NextDiag]_vars

\* ------------------------------------------------------------------------
\* xcodeIPAExport from the export command on, findIDEDistrubutionLogsPath
\* ------------------------------------------------------------------------
\* filepath.Join(tmpDir, "export_options.plist"), filepath.Join(tmpDir, "exported")
exportOptionsPath == "/tmp/xcodeIPAExport/export_options.plist"
ipaExportDir == "/tmp/xcodeIPAExport/exported"

\* the pattern can match from token m on: the literal part, a quote, and a
\* further quote somewhere after it
PatternAt(line, m) ==
  /\ m + 1 <= Len(line)
  /\ line[m].v = IDEDistributionLogMarker
  /\ line[m + 1] = Quote
  /\ \E q \in (m + 2)..Len(line) : line[q] = Quote

\* re.FindStringSubmatch(line): << >> without a match, else the match and
\* the group log_path; (.*) is greedy, it runs up to the last quote
FindStringSubmatch(line) ==
  LET ms == {m \in DOMAIN line : PatternAt(line, m)} IN
    IF ms = {} THEN << >>
    ELSE LET m == Min(ms)
             q == Max({k \in (m + 2)..Len(line) : line[k] = Quote}) IN
           << TokensText(SubSeq(line, m, q)),
              TokensText(SubSeq(line, m + 2, q - 1)) >>

\* the lines scanner.Scan() delivers and the scanner.Err() left behind
ScannedLines(output) ==
  LET long == {k \in DOMAIN output : output[k] = XLineTooLong} IN
    IF long = {} THEN output ELSE SubSeq(output, 1, Min(long) - 1)

ScannerErr(output) ==
  IF \E k \in DOMAIN output : output[k] = XLineTooLong
    THEN ErrTooLong ELSE "nil"

findIDEDistrubutionLogsPath_Last(output) ==
  LET lines == ScannedLines(output)
      hits == {k \in DOMAIN lines : Len(FindStringSubmatch(lines[k])) = 2} IN
    IF hits # {}
      THEN [path |-> FindStringSubmatch(lines[Max(hits)])[2], err |-> "nil"]
      ELSE [path |-> "", err |-> ScannerErr(output)]

findIDEDistrubutionLogsPath(output) ==
  LET lines == ScannedLines(output)
      hits == {k \in DOMAIN lines : Len(FindStringSubmatch(lines[k])) = 2} IN
    IF hits # {}
      THEN [path |-> FindStringSubmatch(lines[Min(hits)])[2], err |-> "nil"]
      ELSE [path |-> "", err |-> ScannerErr(output)]

NoReturn == [kind |-> "none", cause |-> "nil"]
ReturnNil == [kind |-> "nil", cause |-> "nil"]
\* fmt.Errorf("export failed, error: %s", err): err is the one declared by
\* the call of findIDEDistrubutionLogsPath in the same block
ExportFailedError(err) == [kind |-> "export failed", cause |-> err]

InitExport ==
  /\ c \in BridgeClients
  /\ c2 = c
  /\ subCommand = "list_dev_certs"
  /\ opts = << >>
  /\ BridgeIdle
  /\ ArchiveIdle
  /\ DiagIdle
  /\ outputTool \in {"xcpretty", "xcodebuild"}
  /\ ePc = "start"
  /\ xcodebuildLog = EmptyString
  /\ eOut = EmptyExportOutput
  /\ eFind = NoFind
  /\ eRet = NoReturn
  /\ eRuns = << >>
  /\ eLast = NoXcodeRun
  /\ InputsIdle
  /\ StepIdle

notExport ==
  << bridgeAll, archiveVars, diagVars, inputVars, stepVars >>

\* xcprettyCmd.Run() or exportCmd.RunAndReturnOutput() is called
ExportCommandStart ==
  /\ ePc = "start"
  /\ ePc' = "running"
  /\ eRuns' = Append(eRuns, outputTool)
  /\ UNCHANGED << outputTool, xcodebuildLog, eOut, eFind, eRet, eLast >>
  /\ UNCHANGED notExport

AfterExport_RetryOnMarker(err, output) ==
  IF err = "nil" THEN "done"
  ELSE IF ContainsCacheInvalid(output) THEN "start" ELSE "find"

\* where xcodeIPAExport goes on after the export command: if err != nil
\* the failure block, else the return of out, nil
AfterExport(err, output) == IF err = "nil" THEN "done" ELSE "find"

\* the export command returns the run r
ExportCommandEnd(r) ==
  /\ ePc = "running"
  /\ xcodebuildLog' = r.output
  /\ eLast' = r
  /\ ePc' = AfterExport(r.err, r.output)
  /\ IF r.err = "nil"
       THEN /\ eOut' = [eOut EXCEPT !.ExportOptionsPath = exportOptionsPath,
                                    !.IPAExportDir = ipaExportDir]
            /\ eRet' = ReturnNil
       ELSE /\ eOut' = [eOut EXCEPT !.XcodebuildLog = r.output]
            /\ eRet' = eRet
  /\ UNCHANGED << outputTool, eFind, eRuns >>
  /\ UNCHANGED notExport

\* the failure branch: findIDEDistrubutionLogsPath(xcodebuildLog), then the
\* return of the error
FindIDEDistrubutionLogs ==
  /\ ePc = "find"
  /\ LET found == findIDEDistrubutionLogsPath(xcodebuildLog) IN
       /\ eFind' = found
       /\ eOut' = IF found.err # "nil" THEN eOut
                  ELSE [eOut EXCEPT !.IDEDistrubutionLogsDir = found.path]
       /\ eRet' = ExportFailedError(found.err)
  /\ ePc' = "done"
  /\ UNCHANGED << outputTool, xcodebuildLog, eRuns, eLast >>
  /\ UNCHANGED notExport

NextExport ==
  \/ ExportCommandStart
  \/ \E r \in XcodeRuns : ExportCommandEnd(r)
  \/ FindIDEDistrubutionLogs

SpecExport == InitExport /\ [][NextExport]_vars

\* ------------------------------------------------------------------------
\* ProcessInputs
\* ------------------------------------------------------------------------
minSupportedXcodeMajorVersion == 9

MaxXcodeVersion == 11

\* the major versions xcodebuild -version may report
XcodeVersions == 6..MaxXcodeVersion

ProjectPaths ==
  { Path("", "App", ".xcodeproj"), Path("", "App", ".xcworkspace"),
    Path("", "App", ".txt") }

\* filepath.Ext, filepath.Abs
Ext(p) == p.ext
Abs(p) == IF p.dir = "" THEN [p EXCEPT !.dir = "/cwd"] ELSE p

\* values of custom_export_options_plist_content: none, a property list, a
\* property list with white space around it, something plist.Unmarshal
\* rejects
PlistContents == {"", "<plist/>", " <plist/> ", "junk"}
TrimSpace(str) == IF str = " <plist/> " THEN "<plist/>" ELSE str
UnmarshalPlist(str) == IF str = "junk" THEN "error" ELSE "nil"

\* the inputs the parser accepts (output_tool is opt[xcpretty,xcodebuild])
InputsSet ==
  [OutputTool : {"xcpretty", "xcodebuild"},
   Workdir : {"", "/w"},
   ProjectPath : ProjectPaths,
   CustomExportOptionsPlistContent : PlistContents,
   ForceTeamID : {"", "TEAM"},
   ForceProvisioningProfileSpecifier : {"", "TEAM/profile"},
   ForceProvisioningProfile : {"", "uuid"},
   OutputDir : {"deploy"}]

\* if filepath.Ext(config.ProjectPath) != ".xcodeproj" && ... != ".xcworkspace"
IsProjectExt(ext) == ext \in {".xcodeproj", ".xcworkspace"}

\* the checks before the Xcode version is read: "nil" or the error
ValidateInputs(cfg, workdirExists) ==
  IF cfg.Inputs.Workdir # "" /\ ~workdirExists
    THEN "issue with input Workdir"
  ELSE IF cfg.Inputs.CustomExportOptionsPlistContent # ""
          /\ UnmarshalPlist(cfg.Inputs.CustomExportOptionsPlistContent) # "nil"
    THEN "issue with input CustomExportOptionsPlistContent"
  ELSE IF ~IsProjectExt(Ext(cfg.Inputs.ProjectPath))
    THEN "issue with input ProjectPath"
  ELSE "nil"

IsSupportedXcode_Seven(v) == v >= 7

\* !(xcodeMajorVersion < minSupportedXcodeMajorVersion)
IsSupportedXcode(v) == ~(v < minSupportedXcodeMajorVersion)

\* the adjustments of the inputs after the version is known
NormalizeInputs(in, v) ==
  LET custom == TrimSpace(in.CustomExportOptionsPlistContent)
      specifier ==
        IF in.ForceProvisioningProfileSpecifier # "" /\ v < 8 THEN ""
        ELSE in.ForceProvisioningProfileSpecifier
      team == IF in.ForceTeamID # "" /\ v < 8 THEN "" ELSE in.ForceTeamID
      profile ==
        IF specifier # "" /\ in.ForceProvisioningProfile # "" THEN ""
        ELSE in.ForceProvisioningProfile IN
    [in EXCEPT
       !.CustomExportOptionsPlistContent =
          IF custom # "" /\ v < 7 THEN "" ELSE custom,
       !.ForceProvisioningProfileSpecifier = specifier,
       !.ForceTeamID = team,
       !.ForceProvisioningProfile = profile]

InitInputs ==
  /\ c \in BridgeClients
  /\ c2 = c
  /\ subCommand = "list_dev_certs"
  /\ opts = << >>
  /\ BridgeIdle
  /\ ArchiveIdle
  /\ DiagIdle
  /\ ExportIdle
  /\ StepIdle
  /\ inputs \in InputsSet
  /\ config = EmptyConfig
  /\ xcodeMajorVersion = 0
  /\ piPc = "parse"
  /\ piErr = "none"

notInputs ==
  << bridgeAll, archiveVars, diagVars, exportVars, stepVars >>

\* ProcessInputs returns Config{} and an error
ReturnInputError(err) ==
  /\ config' = EmptyConfig
  /\ piErr' = err
  /\ piPc' = "done"

\* s.stepInputParser.Parse(&inputs); config := Config{Inputs: inputs}
ParseInputs(ok) ==
  /\ piPc = "parse"
  /\ IF ok
       THEN /\ config' = [Inputs |-> inputs, XcodeMajorVersion |-> 0]
            /\ piPc' = "validate"
            /\ piErr' = piErr
       ELSE ReturnInputError("issue with input")
  /\ UNCHANGED << inputs, xcodeMajorVersion >>
  /\ UNCHANGED notInputs

\* the checks of Workdir, CustomExportOptionsPlistContent and ProjectPath
CheckInputs(workdirExists) ==
  /\ piPc = "validate"
  /\ IF ValidateInputs(config, workdirExists) = "nil"
       THEN /\ piPc' = "version"
            /\ UNCHANGED << config, piErr >>
       ELSE ReturnInputError(ValidateInputs(config, workdirExists))
  /\ UNCHANGED << inputs, xcodeMajorVersion >>
  /\ UNCHANGED notInputs

\* s.xcodeVersionProvider.GetXcodeVersion() and the minimum version
GetXcodeVersion(ok, v) ==
  /\ piPc = "version"
  /\ IF ~ok
       THEN /\ ReturnInputError("failed to determine xcode version")
            /\ xcodeMajorVersion' = xcodeMajorVersion
       ELSE /\ xcodeMajorVersion' = v
            /\ IF IsSupportedXcode(v)
                 THEN /\ config' = [config EXCEPT !.XcodeMajorVersion = v]
                      /\ piPc' = "normalize"
                      /\ piErr' = piErr
                 ELSE ReturnInputError("invalid xcode major version")
  /\ UNCHANGED inputs
  /\ UNCHANGED notInputs

\* the adjustments of CustomExportOptionsPlistContent, ForceTeamID,
\* ForceProvisioningProfileSpecifier and ForceProvisioningProfile
AdjustInputs ==
  /\ piPc = "normalize"
  /\ config' =
       [config EXCEPT !.Inputs = NormalizeInputs(@, xcodeMajorVersion)]
  /\ piPc' = "paths"
  /\ UNCHANGED << inputs, xcodeMajorVersion, piErr >>
  /\ UNCHANGED notInputs

\* the absolute project path and the output directory
ResolvePaths(ok) ==
  /\ piPc = "paths"
  /\ IF ok
       THEN /\ config' =
                 [config EXCEPT !.Inputs.ProjectPath = Abs(@),
                                !.Inputs.OutputDir = "/cwd/" \o @]
            /\ piErr' = "nil"
            /\ piPc' = "done"
       ELSE ReturnInputError("failed to resolve paths")
  /\ UNCHANGED << inputs, xcodeMajorVersion >>
  /\ UNCHANGED notInputs

NextInputs ==
  \/ \E ok \in BOOLEAN : ParseInputs(ok)
  \/ \E workdirExists \in BOOLEAN : CheckInputs(workdirExists)
  \/ \E ok \in BOOLEAN, v \in XcodeVersions : GetXcodeVersion(ok, v)
  \/ AdjustInputs
  \/ \E ok \in BOOLEAN : ResolvePaths(ok)

SpecInputs == InitInputs /\ [][NextInputs]_vars

\* ------------------------------------------------------------------------
\* RunStep: ProcessInputs, EnsureDependencies, Run (xcodeArchive, then
\* xcodeIPAExport), ExportOutput
\* ------------------------------------------------------------------------
\* mainTarget.ProductType: the App Clip product type, or another one
appClipProductType == "app clip"
ProductTypes == {appClipProductType, "application"}

\* the inputs of the executions of RunStep that are followed
StepInputs ==
  { in \in InputsSet :
      /\ in.Workdir = ""
      /\ in.ProjectPath = Path("", "App", ".xcodeproj")
      /\ in.CustomExportOptionsPlistContent = ""
      /\ in.ForceTeamID = ""
      /\ in.ForceProvisioningProfileSpecifier = ""
      /\ in.ForceProvisioningProfile = "" }

\* the runs of xcodebuild that are followed
StepOutputs ==
  { << XLineJunk >>, << XLineCacheInvalid >>, << XLineLogX >>,
    << XLineTooLong >> }

StepRuns == { r \in XcodeRuns : r.output \in StepOutputs }

ToolAfterDependencies_Keeps(tool, err) == tool

\* config.OutputTool after EnsureDependencies returned err
ToolAfterDependencies(tool, err) ==
  IF err # "nil" THEN "xcodebuild" ELSE tool

AfterXcodeArchive_ExportsAnyway(err) == "xcodeIPAExport"

\* Run after xcodeArchive returned err: the return, or xcodeIPAExport
AfterXcodeArchive(err) ==
  IF err # "nil" THEN "ExportOutput" ELSE "xcodeIPAExport"

RunFailed_KeepsOut(out, log, dir) ==
  [out EXCEPT !.XcodebuildLog = log, !.IDEDistrubutionLogsDir = dir]

\* the RunOut that Run returns with an error
RunFailed(out, log, dir) ==
  [EmptyRunOut EXCEPT !.XcodebuildLog = log, !.IDEDistrubutionLogsDir = dir]

StepReturn_ExportErrFirst(rerr, eerr) ==
  IF eerr # "nil" THEN [kind |-> "error", err |-> eerr]
  ELSE IF rerr # "nil" THEN [kind |-> "error", err |-> rerr]
  ELSE [kind |-> "nil", err |-> "nil"]

\* what RunStep returns, from runErr and exportErr
StepReturn(rerr, eerr) ==
  IF rerr # "nil" THEN [kind |-> "error", err |-> rerr]
  ELSE IF eerr # "nil" THEN [kind |-> "error", err |-> eerr]
  ELSE [kind |-> "nil", err |-> "nil"]

\* how RunStep ended: not yet, by os.Exit(1), or with a return value
NotEnded == [kind |-> "none", err |-> "nil"]
Exit1 == [kind |-> "exit", err |-> "1"]

\* ExportOutput does nothing that can fail when every field is empty
NothingToExport(o) == o = EmptyRunOut

InitStep ==
  /\ c \in BridgeClients
  /\ c2 = c
  /\ subCommand = "list_dev_certs"
  /\ opts = << >>
  /\ BridgeIdle
  /\ ArchiveIdle
  /\ DiagIdle
  /\ ExportIdle
  /\ inputs \in StepInputs
  /\ config = EmptyConfig
  /\ xcodeMajorVersion = 0
  /\ piPc = "parse"
  /\ piErr = "none"
  /\ sPc = "ProcessInputs"
  /\ depsErr = "none"
  /\ mainTarget = ""
  /\ archiveOut = EmptyArchiveOutput
  /\ archiveErr = "none"
  /\ runOut = EmptyRunOut
  /\ runErr = "none"
  /\ exportCalls = << >>
  /\ exportErr = "none"
  /\ stepRet = NotEnded

notStep == << bridgeAll, diagVars >>

archiveCall ==
  << swiftPackagesPath, useXcpretty, aPc, aAttempt, cacheDir >>
archiveRest == << aOutput, aErr, aRet, aLast, aRuns, aEvents >>
exportCall == << outputTool, ePc >>
exportRest == << xcodebuildLog, eOut, eFind, eRet, eRuns, eLast >>

\* RunStep after ProcessInputs returned
ProcessInputsReturn ==
  /\ sPc = "ProcessInputs"
  /\ piPc = "done"
  /\ IF piErr # "nil"
       THEN /\ stepRet' = [kind |-> "error", err |-> piErr]
            /\ sPc' = "returned"
       ELSE /\ stepRet' = stepRet
            /\ sPc' = "EnsureDependencies"
  /\ UNCHANGED << depsErr, mainTarget, archiveOut, archiveErr, runOut,
                  runErr, exportCalls, exportErr >>
  /\ UNCHANGED << inputVars, archiveVars, exportVars, notStep >>

\* step.EnsureDependencies: nil at once unless the output tool is xcpretty,
\* else nil or an error; on an error RunStep changes config.OutputTool
EnsureDependencies(ok) ==
  /\ sPc = "EnsureDependencies"
  /\ (config.Inputs.OutputTool # "xcpretty") => ok
  /\ LET err == IF ok THEN "nil" ELSE "failed to ensure xcpretty" IN
       /\ depsErr' = err
       /\ config' =
            [config EXCEPT
               !.Inputs.OutputTool = ToolAfterDependencies(@, err)]
  /\ sPc' = "xcodeArchive"
  /\ UNCHANGED << mainTarget, archiveOut, archiveErr, runOut, runErr,
                  exportCalls, exportErr, stepRet >>
  /\ UNCHANGED << inputs, xcodeMajorVersion, piPc, piErr >>
  /\ UNCHANGED << archiveVars, exportVars, notStep >>

\* xcodeArchive up to the App Clip test: the project, the platform or the
\* main target cannot be read (ok = FALSE), or the main target has the
\* product type t; with an App Clip the process exits with status 1
OpenProject(ok, t) ==
  /\ sPc = "xcodeArchive"
  /\ IF ~ok
       THEN /\ archiveErr' = "failed to open project"
            /\ sPc' = "Run"
            /\ UNCHANGED << mainTarget, stepRet >>
       ELSE /\ mainTarget' = t
            /\ archiveErr' = archiveErr
            /\ IF t = appClipProductType
                 THEN /\ stepRet' = Exit1
                      /\ sPc' = "exited"
                 ELSE /\ stepRet' = stepRet
                      /\ sPc' = "archiveCmd"
  /\ UNCHANGED << depsErr, archiveOut, runOut, runErr, exportCalls,
                  exportErr >>
  /\ UNCHANGED << inputVars, archiveVars, exportVars, notStep >>

\* xcodeArchive from the archive command's construction to the call of
\* runArchiveCommandWithRetry
CallArchiveCommand(ok) ==
  /\ sPc = "archiveCmd"
  /\ IF ~ok
       THEN /\ archiveErr' = "failed to prepare the archive command"
            /\ sPc' = "Run"
            /\ UNCHANGED archiveCall
       ELSE /\ archiveErr' = archiveErr
            /\ sPc' = "archiving"
            /\ swiftPackagesPath' =
                 IF config.XcodeMajorVersion >= 11 THEN "/SourcePackages"
                 ELSE ""
            /\ useXcpretty' = (config.Inputs.OutputTool = "xcpretty")
            /\ cacheDir' =
                 IF config.XcodeMajorVersion >= 11 THEN "present"
                 ELSE "absent"
            /\ aPc' = "start"
            /\ aAttempt' = 1
  /\ UNCHANGED << depsErr, mainTarget, archiveOut, runOut, runErr,
                  exportCalls, exportErr, stepRet >>
  /\ UNCHANGED << archiveRest, inputVars, exportVars, notStep >>

archivePth == "/tmp/xcodeArchive/App.xcarchive"

\* what can happen in xcodeArchive after a successful archive command: the
\* archive is missing, it cannot be parsed, its dSYMs cannot be listed, or
\* all is well
PostArchive == {"no archive", "parse failed", "dsyms failed", "ok"}

\* xcodeArchive after runArchiveCommandWithRetry returned (log, err): the
\* named result out and the error
XcodeArchiveEnd(log, err, post) ==
  IF err # NoError
    THEN [out |-> [EmptyArchiveOutput EXCEPT !.XcodebuildLog = log],
          err |-> "archive failed"]
  ELSE IF post = "no archive"
    THEN [out |-> EmptyArchiveOutput, err |-> "no archive generated"]
  ELSE IF post = "parse failed"
    THEN [out |-> [EmptyArchiveOutput EXCEPT !.ArchivePath = archivePth],
          err |-> "failed to parse archive"]
  ELSE IF post = "dsyms failed"
    THEN [out |-> [EmptyArchiveOutput EXCEPT
                     !.ArchivePath = archivePth,
                     !.AppPath = "App.app"],
          err |-> "failed to export dsyms"]
  ELSE [out |-> [EmptyArchiveOutput EXCEPT
                   !.ArchivePath = archivePth,
                   !.AppPath = "App.app",
                   !.AppDSYMPaths = << "App.app.dSYM" >>,
                   !.FrameworkDSYMPaths = << "F.framework.dSYM" >>],
        err |-> "nil"]

ArchiveCommandReturn(post) ==
  /\ sPc = "archiving"
  /\ aPc = "done"
  /\ LET end == XcodeArchiveEnd(aRet.out, aRet.err, post) IN
       /\ archiveOut' = end.out
       /\ archiveErr' = end.err
  /\ sPc' = "Run"
  /\ UNCHANGED << depsErr, mainTarget, runOut, runErr, exportCalls,
                  exportErr, stepRet >>
  /\ UNCHANGED << inputVars, archiveVars, exportVars, notStep >>

\* Run after xcodeArchive returned
RunAfterArchive ==
  /\ sPc = "Run"
  /\ IF AfterXcodeArchive(archiveErr) = "ExportOutput"
       THEN /\ runOut' = RunFailed(runOut, archiveOut.XcodebuildLog, "")
            /\ runErr' = archiveErr
            /\ sPc' = "ExportOutput"
       ELSE /\ runOut' =
                 [runOut EXCEPT
                    !.ArchivePath = archiveOut.ArchivePath,
                    !.AppPath = archiveOut.AppPath,
                    !.AppDSYMPaths = archiveOut.AppDSYMPaths,
                    !.FrameworkDSYMPaths = archiveOut.FrameworkDSYMPaths]
            /\ runErr' = runErr
            /\ sPc' = "xcodeIPAExport"
  /\ UNCHANGED << depsErr, mainTarget, archiveOut, archiveErr, exportCalls,
                  exportErr, stepRet >>
  /\ UNCHANGED << inputVars, archiveVars, exportVars, notStep >>

\* xcodeIPAExport up to the export command: the environment, the temporary
\* directory and the export options; a failure returns the empty out
CallExportCommand(ok) ==
  /\ sPc = "xcodeIPAExport"
  /\ IF ~ok
       THEN /\ runOut' = RunFailed(runOut, EmptyString, "")
            /\ runErr' = "failed to prepare the export command"
            /\ sPc' = "ExportOutput"
            /\ UNCHANGED exportCall
       ELSE /\ UNCHANGED << runOut, runErr >>
            /\ sPc' = "exporting"
            /\ outputTool' = config.Inputs.OutputTool
            /\ ePc' = "start"
  /\ UNCHANGED << depsErr, mainTarget, archiveOut, archiveErr, exportCalls,
                  exportErr, stepRet >>
  /\ UNCHANGED << exportRest, inputVars, archiveVars, notStep >>

\* Run after xcodeIPAExport returned
RunAfterExport ==
  /\ sPc = "exporting"
  /\ ePc = "done"
  /\ IF eRet # ReturnNil
       THEN /\ runOut' = RunFailed(runOut, eOut.XcodebuildLog,
                                   eOut.IDEDistrubutionLogsDir)
            /\ runErr' = eRet.kind
       ELSE /\ runOut' =
                 [runOut EXCEPT
                    !.ExportOptionsPath = eOut.ExportOptionsPath,
                    !.IPAExportDir = eOut.IPAExportDir]
            /\ runErr' = "nil"
  /\ sPc' = "ExportOutput"
  /\ UNCHANGED << depsErr, mainTarget, archiveOut, archiveErr, exportCalls,
                  exportErr, stepRet >>
  /\ UNCHANGED << inputVars, archiveVars, exportVars, notStep >>

\* step.ExportOutput(exportOpts), the options taken from what Run returned
ExportOutput(ok) ==
  /\ sPc = "ExportOutput"
  /\ NothingToExport(runOut) => ok
  /\ exportCalls' = Append(exportCalls, runOut)
  /\ exportErr' = IF ok THEN "nil" ELSE "failed to export outputs"
  /\ sPc' = "return"
  /\ UNCHANGED << depsErr, mainTarget, archiveOut, archiveErr, runOut,
                  runErr, stepRet >>
  /\ UNCHANGED << inputVars, archiveVars, exportVars, notStep >>

\* the end of RunStep
RunStepReturn ==
  /\ sPc = "return"
  /\ stepRet' = StepReturn(runErr, exportErr)
  /\ sPc' = "returned"
  /\ UNCHANGED << depsErr, mainTarget, archiveOut, archiveErr, runOut,
                  runErr, exportCalls, exportErr >>
  /\ UNCHANGED << inputVars, archiveVars, exportVars, notStep >>

\* the steps of ProcessInputs, of runArchiveCommandWithRetry and of the
\* export command belong to RunStep
NextStep ==
  \/ \E ok \in BOOLEAN : ParseInputs(ok)
  \/ \E workdirExists \in BOOLEAN : CheckInputs(workdirExists)
  \/ \E ok \in BOOLEAN, v \in XcodeVersions : GetXcodeVersion(ok, v)
  \/ AdjustInputs
  \/ \E ok \in BOOLEAN : ResolvePaths(ok)
  \/ ProcessInputsReturn
  \/ \E ok \in BOOLEAN : EnsureDependencies(ok)
  \/ \E ok \in BOOLEAN, t \in ProductTypes : OpenProject(ok, t)
  \/ \E ok \in BOOLEAN : CallArchiveCommand(ok)
  \/ RunArchiveCommandStart
  \/ \E r \in StepRuns : RunArchiveCommandEnd(r)
  \/ RemoveAllStart
  \/ \E ok \in BOOLEAN : RemoveAllEnd(ok)
  \/ \E post \in PostArchive : ArchiveCommandReturn(post)
  \/ RunAfterArchive
  \/ \E ok \in BOOLEAN : CallExportCommand(ok)
  \/ ExportCommandStart
  \/ \E r \in StepRuns : ExportCommandEnd(r)
  \/ FindIDEDistrubutionLogs
  \/ RunAfterExport
  \/ \E ok \in BOOLEAN : ExportOutput(ok)
  \/ RunStepReturn

SpecStep == InitStep /\ [][NextStep]_vars

\* ------------------------------------------------------------------------
\* Properties of runSpaceshipCommand
\* ------------------------------------------------------------------------
Attempted == DOMAIN attempts

IsLast(k) == k = Len(attempts)

SleptAfter(k) == \E s \in DOMAIN sleeps : sleeps[s].after = k

SleptAfterFor(k, secs) ==
  \E s \in DOMAIN sleeps : sleeps[s] = [after |-> k, secs |-> secs]

\* the call returned straight from attempt k
ReturnedFrom(k) == IsLast(k) /\ pc = "done" /\ ~SleptAfter(k)

\* attempt k was followed by its backoff sleep, or is about to be
BackedOffAfter(k) ==
  \/ IsLast(k) /\ pc = "sleep" /\ ~SleptAfter(k)
  \/ SleptAfterFor(k, k * 15)

\* C1 as stated: an attempt i < 3 whose process succeeds and whose payload
\* has retry=true is followed by a sleep of i*15 seconds and a further
\* attempt, so the call never returns from such an attempt.
C1_Original ==
  \A k \in Attempted :
    (attempts[k].err = "ProfilesInconsistentError" /\ k < 3)
      => /\ BackedOffAfter(k)
         /\ pc = "done" => Len(attempts) > k

\* C1 amended: an attempt whose process succeeds and whose payload has
\* retry=true ends the call at once: no sleep and no further attempt follow
\* it, and the call returns an empty payload with the typed
\* profiles-inconsistent error of that attempt.
C1_Amended ==
  \A k \in Attempted :
    attempts[k].err = "ProfilesInconsistentError"
      => /\ attempts[k].proc = "nil"
         /\ ReturnedFrom(k)
         /\ ret = Result(EmptyString, spaceshipErr)
         /\ ret.err.kind = "ProfilesInconsistentError"

C1_Witness ==
  /\ pc = "done"
  /\ Len(attempts) = 1
  /\ attempts[1].err = "ProfilesInconsistentError"
  /\ run.output = << LineRetry >>
  /\ sleeps = << >>

\* C2 as stated: an attempt whose process fails with an exit status ends the
\* call at once, whatever the captured output: no sleep, no further attempt,
\* and an error describing the exit status is returned.
C2_Original ==
  \A k \in Attempted :
    attempts[k].proc = "ExitError"
      => /\ ReturnedFrom(k)
         /\ ret.err.kind = "exited with status"

\* C2 amended: an attempt whose process fails with an exit status ends the
\* call at once, with an empty payload and the error describing the exit
\* status, when the captured output does not contain the transient-service
\* marker; when the output contains the marker the attempt is followed by a
\* sleep of i*15 seconds.
C2_Amended ==
  \A k \in Attempted :
    attempts[k].proc = "ExitError"
      => IF attempts[k].rawMarker
           THEN BackedOffAfter(k)
           ELSE /\ ReturnedFrom(k)
                /\ ret = Result(EmptyString,
                                ExitStatusError(run.code, run.output))

C2_Witness ==
  /\ pc = "done"
  /\ Len(attempts) = 1
  /\ attempts[1].proc = "ExitError"
  /\ ~attempts[1].rawMarker
  /\ run.output # EmptyString
  /\ ret.err.kind = "exited with status"

\* C3: one call spawns at most 3 processes, one at a time and in the order
\* 1, 2, 3, and spawns no process after an attempt that ended in success or
\* in a non-retryable error.
C3_BoundedSequentialAttempts ==
  /\ running \in {0, 1}
  /\ Len(attempts) + running <= 3
  /\ \A k \in Attempted : attempts[k].n = k
  /\ \A k \in Attempted :
       (~attempts[k].failed \/ ~attempts[k].marker)
         => IsLast(k) /\ running = 0 /\ pc = "done"

C3_Witness ==
  /\ pc = "done"
  /\ Len(attempts) = 3
  /\ ~attempts[3].failed

\* C4 as stated: every backoff sleep is followed by another attempt; at most
\* two sleeps happen per call and none after attempt 3.
C4_NoSleepAfterLastAttempt ==
  /\ Len(sleeps) <= 2
  /\ \A s \in DOMAIN sleeps : sleeps[s].after < 3
  /\ pc = "done" => \A s \in DOMAIN sleeps : Len(attempts) > sleeps[s].after

\* C5: when every attempt fails and returns an output containing the
\* transient-service marker, exactly 3 attempts are made, the sleep between
\* attempt i and attempt i+1 lasts i*15 seconds, and the call returns the
\* error (and output) of the third attempt.
AllRetryable == \A k \in Attempted : attempts[k].failed /\ attempts[k].marker

C6_Original ==
  \A k \in Attempted :
    (attempts[k].proc = "nil" /\ attempts[k].failed
       /\ attempts[k].rawMarker /\ k < 3)
      => /\ BackedOffAfter(k)
         /\ pc = "done" => Len(attempts) > k

\* C6 amended: the marker triggers a retry only when the process itself
\* fails.  An attempt whose process exits successfully and that fails (no
\* JSON line, unparseable JSON, payload with retry or error) ends the call at
\* once with an empty payload and the error of that attempt, also when its
\* output contains the marker.
C6_Amended ==
  /\ \A k \in Attempted :
       (attempts[k].proc = "nil" /\ attempts[k].failed)
         => /\ ReturnedFrom(k)
            /\ ~attempts[k].marker
            /\ ret = Result(EmptyString, spaceshipErr)
  /\ \A s \in DOMAIN sleeps :
       /\ attempts[sleeps[s].after].proc # "nil"
       /\ attempts[sleeps[s].after].rawMarker

C6_Witness ==
  /\ pc = "done"
  /\ Len(attempts) = 1
  /\ attempts[1].proc = "nil"
  /\ attempts[1].rawMarker
  /\ attempts[1].err = "failed to unmarshal response"
  /\ sleeps = << >>

\* C7: when the process of the first attempt exits successfully and its
\* output has no line matching the brace-delimited pattern, the call returns
\* a format error after exactly one attempt, with no sleep and an empty
\* payload.
NoBraceLine(output) ==
  \A l \in DOMAIN output :
    ~(output[l][1].k = "{" /\ output[l][Len(output[l])].k = "}")

C7_FormatErrorNoRetry ==
  (Len(attempts) >= 1 /\ i = 1 /\ run.err = "nil" /\ NoBraceLine(run.output))
    => /\ Len(attempts) = 1
       /\ pc = "done"
       /\ sleeps = << >>
       /\ ret = Result(EmptyString, NoResponseError(run.output))

C7_Witness ==
  /\ pc = "done"
  /\ Len(attempts) = 1
  /\ run.err = "nil"
  /\ run.output = << LineJunk, LineMarker >>
  /\ ret.err.kind = "output does not contain response"

\* ------------------------------------------------------------------------
\* Properties of runSpaceshipCommandOnce
\* ------------------------------------------------------------------------
\* spaceshipOut and spaceshipErr hold the result of the latest attempt, run
\* holds the run of its process
Once == run # NoRun /\ run.err = "nil"

BraceLines(output) ==
  { l \in DOMAIN output :
      output[l][1].k = "{" /\ output[l][Len(output[l])].k = "}" }

FirstBraceLine(output) ==
  output[CHOOSE l \in BraceLines(output) :
           \A m \in BraceLines(output) : l <= m]

\* C8 as stated: an output is accepted only when exactly one line matches;
\* two or more matching lines yield a format error, like none.
C8_Original ==
  (Once /\ Cardinality(BraceLines(run.output)) # 1)
    => spaceshipErr.kind = "output does not contain response"

\* C8 amended: an output is accepted when at least one line matches; with
\* two or more matching lines the first one is used and the others are
\* ignored; only an output with no matching line yields the format error.
C8_Amended ==
  Once =>
    IF BraceLines(run.output) = {}
      THEN /\ spaceshipErr = NoResponseError(run.output)
           /\ spaceshipOut = EmptyString
      ELSE /\ spaceshipErr.kind # "output does not contain response"
           /\ Result(spaceshipOut, spaceshipErr) =
                runSpaceshipCommandOnce(
                  [run EXCEPT !.output = << FirstBraceLine(run.output) >>])
           /\ spaceshipErr = Nil
                => spaceshipOut = << FirstBraceLine(run.output) >>

C8_Witness ==
  /\ Once
  /\ run.output = << LineOK, LineError >>
  /\ spaceshipErr = Nil
  /\ spaceshipOut = << LineOK >>

\* C9: for an attempt whose process succeeds and whose matched line parses:
\* retry=true gives the typed profiles-inconsistent error wrapping the
\* payload's error text (also when it is empty); otherwise a non-empty error
\* gives the plain portal error; otherwise the result is exactly the matched
\* line, with no error.
HasToken(line, k, v) == \E p \in DOMAIN line : line[p] = Tok(k, v)

ErrorText(line) ==
  IF \E p \in DOMAIN line : line[p].k = "error"
    THEN (CHOOSE t \in { line[p] : p \in DOMAIN line } : t.k = "error").v
    ELSE ""

C9_PayloadClassification ==
  (Once /\ BraceLines(run.output) # {})
    => LET m == FirstBraceLine(run.output) IN
         Unmarshal(m).ok =>
           IF HasToken(m, "retry", "true")
             THEN /\ spaceshipOut = EmptyString
                  /\ spaceshipErr = NewProfilesInconsistentError(ErrorText(m))
           ELSE IF ErrorText(m) # ""
             THEN /\ spaceshipOut = EmptyString
                  /\ spaceshipErr = PortalError(ErrorText(m))
           ELSE /\ spaceshipOut = << m >>
                /\ spaceshipErr = Nil

C9_Witness ==
  /\ Once
  /\ run.output = << LineJunk, LineRetry >>
  /\ spaceshipErr.kind = "ProfilesInconsistentError"
  /\ spaceshipErr.text = "x"

\* ------------------------------------------------------------------------
\* Properties of createSpaceshipCommand
\* ------------------------------------------------------------------------
\* base64 (RFC 4648, standard alphabet, padded) of the byte strings over
\* {77, 255} of up to 3 bytes
Base64Vectors ==
  (<< >> :> "") @@ (<< 77 >> :> "TQ==") @@ (<< 255 >> :> "/w==")
  @@ (<< 77, 77 >> :> "TU0=") @@ (<< 77, 255 >> :> "Tf8=")
  @@ (<< 255, 77 >> :> "/00=") @@ (<< 255, 255 >> :> "//8=")
  @@ (<< 77, 77, 77 >> :> "TU1N") @@ (<< 77, 77, 255 >> :> "TU3/")
  @@ (<< 77, 255, 77 >> :> "Tf9N") @@ (<< 77, 255, 255 >> :> "Tf//")
  @@ (<< 255, 77, 77 >> :> "/01N") @@ (<< 255, 77, 255 >> :> "/03/")
  @@ (<< 255, 255, 77 >> :> "//9N") @@ (<< 255, 255, 255 >> :> "////")

ExecutedArgs(cl, command) ==
  command.command.args =
    << "main.rb", "--subcommand", subCommand >> \o opts
      \o << "--username", cl.Username, "--password", cl.Password,
            "--session", Base64Vectors[cl.Session], "--team-id", cl.teamID >>

\* C10: the printable form of the command does not depend on the secrets:
\* two clients that differ in username, password, session or team id
\* produce the same printableCommandArgs for the same subcommand and
\* options, while the executed argument list carries the secrets, the
\* session base64-encoded.
C10_PrintableIndependentOfSecrets ==
  cmd # NoCommand
    => /\ cmd.printableCommandArgs = cmd2.printableCommandArgs
       /\ ExecutedArgs(c, cmd)
       /\ ExecutedArgs(c2, cmd2)

C10_Witness ==
  /\ cmd # NoCommand
  /\ c.Username # c2.Username
  /\ c.Password # c2.Password
  /\ c.teamID # c2.teamID
  /\ c.Session = << 77, 255 >>
  /\ c2.Session = << 255 >>
  /\ opts # << >>
  /\ cmd.command.args # cmd2.command.args

\* ------------------------------------------------------------------------
\* Properties of runArchiveCommandWithRetry
\* ------------------------------------------------------------------------
CountEvents(e) == Cardinality({ k \in DOMAIN aEvents : aEvents[k] = e })

FirstRan == Len(aRuns) >= 1

\* what runArchiveCommand returned for the latest run
LastArchiveResult == Result(aLast.output, CommandError(aLast))

\* C11 as stated: whenever the output of the first attempt contains the
\* cache-invalid marker and the cache path is non-empty, the cache path is
\* deleted and the archive command runs a second time exactly once.
C11_Original ==
  (aPc = "done" /\ aRuns[1].marker /\ swiftPackagesPath # "")
    => /\ CountEvents("remove start") = 1
       /\ Len(aRuns) = 2

\* C11 amended: whenever the first attempt fails, its output contains the
\* cache-invalid marker and the cache path is non-empty, os.RemoveAll is
\* called on the cache path exactly once and, when the removal succeeds, the
\* archive command runs a second time exactly once, whatever the outcome of
\* the second attempt.
C11_Amended ==
  (FirstRan /\ aRuns[1].err # "nil" /\ aRuns[1].marker
     /\ swiftPackagesPath # "")
    => /\ aEvents = << "archive start", "archive end" >> => aPc = "remove"
       /\ aPc = "done"
            => /\ CountEvents("remove start") = 1
               /\ CountEvents("remove end") = 1
                    => Len(aRuns) = 2 /\ cacheDir = "absent"
               /\ CountEvents("remove end") = 0 => Len(aRuns) = 1

C11_Witness ==
  /\ aPc = "done"
  /\ Len(aRuns) = 2
  /\ aRuns[1].err = "other"
  /\ aRuns[2].err = "nil"
  /\ CountEvents("remove end") = 1

\* C12: one call runs the archive command at most twice and deletes the
\* cache path at most once; the result of a second attempt is returned as it
\* is, also when it fails with the marker again.
C12_AtMostOneRetry ==
  /\ Len(aRuns) <= 2
  /\ CountEvents("archive start") <= 2
  /\ CountEvents("remove start") <= 1
  /\ Len(aRuns) = 2
       => /\ aPc = "done"
          /\ aRet = LastArchiveResult
          /\ CountEvents("archive start") = 2

C12_Witness ==
  /\ aPc = "done"
  /\ Len(aRuns) = 2
  /\ aRuns[2].err = "ExitError"
  /\ aRuns[2].marker
  /\ aRet.err.kind = "ExitError"
  /\ ContainsCacheInvalid(aRet.out)

\* C13: the archive command runs exactly once, nothing is deleted, and the
\* first attempt's output and error are returned unchanged whenever the
\* first attempt succeeded, the cache path is empty, or the output does not
\* contain the cache-invalid marker.
C13_NoRetryFrame ==
  (FirstRan /\ (\/ aRuns[1].err = "nil"
                \/ swiftPackagesPath = ""
                \/ ~aRuns[1].marker))
    => /\ aPc = "done"
       /\ aEvents = << "archive start", "archive end" >>
       /\ Len(aRuns) = 1
       /\ cacheDir = (IF swiftPackagesPath = "" THEN "absent" ELSE "present")
       /\ aRet = LastArchiveResult

C13_Witness ==
  /\ aPc = "done"
  /\ swiftPackagesPath # ""
  /\ aLast.err = "ExitError"
  /\ aLast.output = << XLineLogX >>
  /\ aRet.err.kind = "ExitError"

\* C14: if deleting the cache path fails, the archive command is not run a
\* second time and the call returns an error about the failed removal (not
\* the build error of the first attempt) with the first attempt's output.
C14_RemoveFailureIsFatal ==
  CountEvents("remove failed") >= 1
    => /\ aPc = "done"
       /\ Len(aRuns) = 1
       /\ CountEvents("archive start") = 1
       /\ aRet.err = RemoveError
       /\ aRet.err # CommandError(aLast)
       /\ aRet.out = aLast.output
       /\ cacheDir = "present"

C14_Witness ==
  /\ aPc = "done"
  /\ CountEvents("remove failed") = 1
  /\ aRet.err = RemoveError
  /\ Len(aRet.out) = 2

\* C15: in every execution that runs the archive command twice, the cache
\* deletion starts after the first attempt has ended and has completed
\* successfully before the second attempt starts.
C15_RemoveBetweenAttempts ==
  \A k \in DOMAIN aEvents :
    (aEvents[k] = "archive start" /\ k > 1)
      => /\ k = 5
         /\ SubSeq(aEvents, 1, 4) =
              << "archive start", "archive end", "remove start", "remove end" >>
         /\ cacheDir = "absent"

C15_Witness ==
  /\ aPc = "done"
  /\ Len(aEvents) = 6
  /\ aEvents[5] = "archive start"
  /\ aEvents[6] = "archive end"

\* ------------------------------------------------------------------------
\* Properties of findXcodebuildErrors
\* ------------------------------------------------------------------------
\* the lines beginning with "error: ", with their text
PlainText ==
  (DLinePlainA :> "error: a") @@ (DLinePlainB :> "error: b")

\* the lines holding an extractable NSError, with their rendering
Rendered ==
  (DLineNSFull :> "d1 s1") @@ (DLineNSDesc :> "d2")

IsPlainLine(line) == line \in DOMAIN PlainText
IsStructuredLine(line) == line \in DOMAIN Rendered

PlainLinesOf(text) == SelectSeq(text, IsPlainLine)
StructuredLinesOf(text) == SelectSeq(text, IsStructuredLine)

Scannable(text) == \A k \in DOMAIN text : text[k] # XLineTooLong

FindReturned == dReasons # << >>

C19_Original ==
  (FindReturned /\ ~Scannable(dOut))
    => /\ dReasons[Len(dReasons)] = << >>
       /\ dWrapped[Len(dWrapped)].cause = ErrTooLong

\* C19 amended: when scanning fails, findXcodebuildErrors returns nil: no
\* records are returned (those collected before the failure are discarded)
\* and the scan error is dropped; wrapXcodebuildCommandError returns the
\* exit status error with no reasons and without the scan error.
C19_Amended ==
  (FindReturned /\ ~Scannable(dOut))
    => /\ dPc \in {"wrap", "done"} => dScanErr = ErrTooLong
       /\ \A j \in DOMAIN dReasons : dReasons[j] = << >>
       /\ \A j \in DOMAIN dWrapped : dWrapped[j] = WrapExit(65, << >>)

C19_Witness ==
  /\ dOut = << DLinePlainA, XLineTooLong >>
  /\ FindReturned
  /\ errorLines = << "error: a" >>
  /\ dReasons[1] = << >>

\* ------------------------------------------------------------------------
\* Properties of findIDEDistrubutionLogsPath within xcodeIPAExport
\* ------------------------------------------------------------------------
\* the lines of XcodeLineSet that carry the log pattern, and the path
\* written between the quotes of each
LogLines == {XLineLogX, XLineLogY}
LogPathOf(line) == IF line = XLineLogX THEN "/var/x" ELSE "/var/y'."

LogLinesIn(output) == {k \in DOMAIN output : output[k] \in LogLines}
LongLinesIn(output) == {k \in DOMAIN output : output[k] = XLineTooLong}

ExportFailed == ePc = "done" /\ eRet.kind = "export failed"

\* C20 as stated: after a failed export the log directory is the path of
\* the first line of the output that matches the pattern; with no matching
\* line the path is empty and the search reports no error.
C20_Original ==
  ExportFailed =>
    IF LogLinesIn(xcodebuildLog) # {}
      THEN LET first == xcodebuildLog[Min(LogLinesIn(xcodebuildLog))] IN
             /\ eFind.path = LogPathOf(first)
             /\ eOut.IDEDistrubutionLogsDir = LogPathOf(first)
      ELSE /\ eFind.path = ""
           /\ eFind.err = "nil"
           /\ eOut.IDEDistrubutionLogsDir = ""

\* C20 (amended): after a failed export, (a) when a line matches the
\* pattern and no over-long line precedes the first such line, the log
\* directory is the path captured on that first line, whatever follows it;
\* (b) when no line matches and no line is over-long, the path is empty and
\* the search reports no error; (c) when an over-long line precedes every
\* matching line, the path is empty, the search reports the scan error and
\* the log directory stays empty.
C20_Amended ==
  ExportFailed =>
    LET hits == LogLinesIn(xcodebuildLog)
        long == LongLinesIn(xcodebuildLog) IN
      /\ (hits # {} /\ \A k \in long : Min(hits) < k)
           => /\ eFind.path = LogPathOf(xcodebuildLog[Min(hits)])
              /\ eFind.err = "nil"
              /\ eOut.IDEDistrubutionLogsDir = LogPathOf(xcodebuildLog[Min(hits)])
      /\ (hits = {} /\ long = {})
           => /\ eFind.path = ""
              /\ eFind.err = "nil"
              /\ eOut.IDEDistrubutionLogsDir = ""
      /\ (long # {} /\ \A k \in hits : Min(long) < k)
           => /\ eFind.path = ""
              /\ eFind.err = ErrTooLong
              /\ eOut.IDEDistrubutionLogsDir = ""

\* a failed export whose output has two matching lines: the path of the
\* first is the log directory
C20_Witness ==
  /\ ExportFailed
  /\ xcodebuildLog = << XLineLogX, XLineLogY >>
  /\ eOut.IDEDistrubutionLogsDir = "/var/x"
  /\ eFind.err = "nil"

\* ------------------------------------------------------------------------
\* Properties of xcodeIPAExport
\* ------------------------------------------------------------------------
ExportCommandFailed == eLast.err \in {"ExitError", "other"}

\* C21: one call of xcodeIPAExport starts the export command at most once;
\* once the command has failed the call only searches the log and returns,
\* and what it returns is an error, whatever the output contains.
C21_ExportRunsOnce ==
  /\ Len(eRuns) <= 1
  /\ ExportCommandFailed
       => /\ ePc \in {"find", "done"}
          /\ ePc = "done" => eRet.kind = "export failed"

\* a failed export whose output has the cache-invalid marker: returned as an
\* error after the one run
C21_Witness ==
  /\ ePc = "done"
  /\ ExportCommandFailed
  /\ ContainsCacheInvalid(eLast.output)
  /\ Len(eRuns) = 1
  /\ eRet.kind = "export failed"

\* the lines beginning with "Error " that lack one of the markers "Domain=",
\* "Code=", "UserInfo=" (each has a description that could be extracted)
LackingLines == {DLineNSNoDomain, DLineNSNoCode, DLineNSNoUserInfo}
HasAllMarkers(line) == line \notin LackingLines
WithoutLacking(text) == SelectSeq(text, HasAllMarkers)

\* C22: a line beginning with "Error " that lacks one of the three markers
\* produces no record: after the scan loop the plain-error lines and the
\* structured-record count are those of the text with such lines taken
\* out, and so is every result returned.
C22_LackingLineIgnored ==
  /\ (dPc = "scanned" /\ dScanErr = "nil")
       => /\ errorLines =
               [k \in 1..Len(PlainLinesOf(WithoutLacking(dOut))) |->
                  PlainText[PlainLinesOf(WithoutLacking(dOut))[k]]]
          /\ Len(nserrors) = Len(StructuredLinesOf(WithoutLacking(dOut)))
  /\ (FindReturned /\ Scannable(dOut))
       => \A j \in DOMAIN dReasons :
            dReasons[j] =
              AfterScan(ScanFrom(WithoutLacking(dOut), 1,
                          [errorLines |-> << >>, nserrors |-> << >>,
                           err |-> "nil"]).errorLines,
                        ScanFrom(WithoutLacking(dOut), 1,
                          [errorLines |-> << >>, nserrors |-> << >>,
                           err |-> "nil"]).nserrors, "nil")

\* one plain line, one structured record and one line of each lacking kind:
\* the counts are 1 and 1, so the structured record is returned
C22_Witness ==
  /\ dOut = << DLinePlainA, DLineNSNoCode, DLineNSFull, DLineNSNoDomain >>
  /\ dPc = "scanned"
  /\ errorLines = << "error: a" >>
  /\ Len(nserrors) = 1

\* C23: whenever the scan does not fail, findXcodebuildErrors returns as
\* many records as the text has lines beginning with "error: "; a text with
\* structured records and no such line yields an empty result, and the
\* error built from it carries no reasons.
C23_AsManyAsPlainLines ==
  (FindReturned /\ Scannable(dOut))
    => /\ \A j \in DOMAIN dReasons :
            Len(dReasons[j]) = Len(PlainLinesOf(dOut))
       /\ (PlainLinesOf(dOut) = << >> /\ StructuredLinesOf(dOut) # << >>)
            => /\ \A j \in DOMAIN dReasons : dReasons[j] = << >>
               /\ \A j \in DOMAIN dWrapped : dWrapped[j].reasons = << >>

\* two structured records and no plain line: nothing is reported
C23_Witness ==
  /\ dOut = << DLineNSFull, DLineNSDesc >>
  /\ FindReturned
  /\ dReasons[1] = << >>
  /\ dWrapped[1] = WrapExit(65, << >>)

\* ------------------------------------------------------------------------
\* Properties of ProcessInputs
\* ------------------------------------------------------------------------
InputsAccepted == piPc = "done" /\ piErr = "nil"

\* C28: every Config that ProcessInputs returns without error has
\* XcodeMajorVersion >= 9, a ProjectPath with extension .xcodeproj or
\* .xcworkspace, and not both ForceProvisioningProfileSpecifier and
\* ForceProvisioningProfile (a given specifier is kept and the profile is
\* cleared); ForceTeamID and the specifier are as given in the inputs.
C28_AcceptedConfig ==
  InputsAccepted
    => /\ config.XcodeMajorVersion >= 9
       /\ config.Inputs.ProjectPath.ext \in {".xcodeproj", ".xcworkspace"}
       /\ ~ /\ config.Inputs.ForceProvisioningProfileSpecifier # ""
            /\ config.Inputs.ForceProvisioningProfile # ""
       /\ inputs.ForceProvisioningProfileSpecifier # ""
            => config.Inputs.ForceProvisioningProfile = ""
       /\ config.Inputs.ForceTeamID = inputs.ForceTeamID
       /\ config.Inputs.ForceProvisioningProfileSpecifier =
            inputs.ForceProvisioningProfileSpecifier

\* Xcode 9, team, specifier and profile all given: accepted, the profile
\* cleared, team and specifier kept
C28_Witness ==
  /\ InputsAccepted
  /\ config.XcodeMajorVersion = 9
  /\ inputs.ForceTeamID = "TEAM"
  /\ inputs.ForceProvisioningProfileSpecifier = "TEAM/profile"
  /\ inputs.ForceProvisioningProfile = "uuid"
  /\ config.Inputs.ForceTeamID = "TEAM"
  /\ config.Inputs.ForceProvisioningProfile = ""
  /\ config.Inputs.ProjectPath = Path("/cwd", "App", ".xcworkspace")

\* ------------------------------------------------------------------------
\* Properties of RunStep and Run
\* ------------------------------------------------------------------------
Failed(err) == err \notin {"none", "nil"}

StepEnded == sPc \in {"returned", "exited"}

\* C24 as stated: in every execution of RunStep in which ProcessInputs
\* succeeds, ExportOutput is called exactly once, after Run, whatever
\* happens in the archive/export phase, an App Clip scheme included; when
\* Run and ExportOutput both fail, RunStep returns the error of Run.
C24_Original ==
  /\ Len(exportCalls) <= 1
  /\ exportCalls # << >> => runErr # "none"
  /\ (StepEnded /\ piErr = "nil")
       => /\ Len(exportCalls) = 1
          /\ (Failed(runErr) /\ Failed(exportErr))
               => stepRet = [kind |-> "error", err |-> runErr]

\* C24 (amended): ExportOutput is called at most once and only after Run
\* returned; when RunStep returns after a successful ProcessInputs it has
\* been called exactly once, and if Run and ExportOutput both failed the
\* error of Run is returned; when the scheme targets an App Clip the
\* process exits with status 1 inside xcodeArchive and ExportOutput is not
\* called at all.
C24_Amended ==
  /\ Len(exportCalls) <= 1
  /\ exportCalls # << >> => runErr # "none"
  /\ (sPc = "returned" /\ piErr = "nil")
       => /\ Len(exportCalls) = 1
          /\ (Failed(runErr) /\ Failed(exportErr))
               => stepRet = [kind |-> "error", err |-> runErr]
  /\ sPc = "exited"
       => /\ mainTarget = appClipProductType
          /\ stepRet = Exit1
          /\ exportCalls = << >>
          /\ runErr = "none"
  /\ mainTarget = appClipProductType => sPc = "exited"

\* the archive fails, its log is handed to ExportOutput, ExportOutput fails
\* too: RunStep returns the archive's error
C24_Witness ==
  /\ sPc = "returned"
  /\ runErr = "archive failed"
  /\ exportErr = "failed to export outputs"
  /\ Len(exportCalls) = 1
  /\ exportCalls[1].XcodebuildLog = << XLineJunk >>
  /\ stepRet = [kind |-> "error", err |-> "archive failed"]

\* C25: the RunOut that Run returns with an error has ArchivePath, AppPath,
\* both dSYM lists, ExportOptionsPath and IPAExportDir empty, also when the
\* archive succeeded and the export failed; the RunOut that Run returns
\* without error has XcodebuildLog and IDEDistrubutionLogsDir empty.
C25_RunOutPartition ==
  /\ Failed(runErr)
       => /\ runOut.ArchivePath = ""
          /\ runOut.AppPath = ""
          /\ runOut.AppDSYMPaths = << >>
          /\ runOut.FrameworkDSYMPaths = << >>
          /\ runOut.ExportOptionsPath = ""
          /\ runOut.IPAExportDir = ""
  /\ runErr = "nil"
       => /\ runOut.XcodebuildLog = EmptyString
          /\ runOut.IDEDistrubutionLogsDir = ""

\* the archive succeeded, the export failed and its log names the log
\* directory: only the log and the directory are returned
C25_Witness ==
  /\ runErr = "export failed"
  /\ archiveOut.ArchivePath = archivePth
  /\ archiveOut.AppDSYMPaths # << >>
  /\ runOut.ArchivePath = ""
  /\ runOut.XcodebuildLog = << XLineLogX >>
  /\ runOut.IDEDistrubutionLogsDir = "/var/x"

\* C26: an export command is started only after xcodeArchive returned
\* without error: the archive command succeeded, at its first or at its
\* second and last run, and the archive path is set; once xcodeArchive has
\* returned an error no export command is started.
C26_ExportOnlyAfterArchive ==
  /\ (eRuns # << >> \/ ePc # "idle")
       => /\ archiveErr = "nil"
          /\ aPc = "done"
          /\ aRet.err = NoError
          /\ Len(aRuns) \in {1, 2}
          /\ aRuns[Len(aRuns)].err = "nil"
          /\ archiveOut.ArchivePath = archivePth
  /\ Failed(archiveErr) => (eRuns = << >> /\ ePc = "idle")

\* the export command runs after an archive that succeeded at its retry
C26_Witness ==
  /\ Len(eRuns) = 1
  /\ Len(aRuns) = 2
  /\ aRuns[1].marker
  /\ aRuns[2].err = "nil"

\* C27: after a failure of EnsureDependencies the output tool is
\* "xcodebuild", RunStep goes on with Run (the failure is not what RunStep
\* returns), and neither the archive nor the export command runs through
\* xcpretty.
C27_DependencyFailureSwitchesTool ==
  Failed(depsErr)
    => /\ config.Inputs.OutputTool = "xcodebuild"
       /\ sPc # "EnsureDependencies"
       /\ stepRet.err # depsErr
       /\ sPc = "returned" => Len(exportCalls) = 1
       /\ ~useXcpretty
       /\ \A k \in DOMAIN aRuns : aRuns[k].tool = "xcodebuild"
       /\ outputTool = "xcodebuild"
       /\ \A k \in DOMAIN eRuns : eRuns[k] = "xcodebuild"

\* xcpretty was asked for and could not be ensured; archive and export ran
\* with xcodebuild alone and the step succeeded
C27_Witness ==
  /\ inputs.OutputTool = "xcpretty"
  /\ Failed(depsErr)
  /\ sPc = "returned"
  /\ stepRet.kind = "nil"
  /\ Len(aRuns) = 1
  /\ aRuns[1].tool = "xcodebuild"
  /\ eRuns = << "xcodebuild" >>

====
